---- MODULE Spec2Model ----
(***************************************************************************)
(* Model of the toolforge components-api deployment orchestrator: the      *)
(* deployment engine (components/deploy_task.py), the request handlers     *)
(* (components/api/tool_handlers.py), token authentication                 *)
(* (components/api/auth.py) and the storage contract they run against.     *)
(*                                                                         *)
(* Storage is modelled with the semantics of the persistent backend: every *)
(* read returns a copy of the stored record and every update replaces the  *)
(* whole record (last writer wins).                                        *)
(***************************************************************************)
EXTENDS Integers, Sequences, FiniteSets, TLC

(***************************************************************************)
(* Bounds of the model and settings.                                       *)
(***************************************************************************)
\* number of deployment-create requests (each may create one deployment)
MaxRequests == 2
\* largest number of components of a tool config
NumComponents == 2
\* the clock stops at MaxTime
MaxTime == 4
\* number of cancel requests
MaxCancels == 1
\* number of deploy tokens ever generated
MaxTokens == 2
\* number of token-authenticated requests
MaxAuths == 2
\* Settings.build_timeout_seconds, scaled to model seconds
build_timeout_seconds == 3
\* Settings.deployment_timeout, scaled to model seconds
deployment_timeout == 2
\* Settings.token_lifetime, scaled to model seconds
token_lifetime == 2
\* Settings.max_parallel_deployments / max_active_deployments (default)
max_active_deployments == 1
\* Settings.max_deployments_retained, scaled to the model's deployments
max_deployments_retained == 2
\* deployment names a direct caller of the storage interface may use
MaxIds == 3
\* time.sleep(2) of the build poll loop
PollSleepSeconds == 2

Reqs == 1..MaxRequests
Tools == {"t1", "t2"}
AllNames == <<"c1", "c2", "c3", "c4">>
ComponentTypes == {"continuous", "scheduled"}
CompName(i) == AllNames[i]

\* the build of a component: the fields of a SourceBuildInfo, or a
\* reuse_from naming a component
SourceBuild == [repository |-> TRUE, reuse_from |-> "none"]
Reference(x) == [repository |-> FALSE, reuse_from |-> x]
\* isinstance(component.build, SourceBuildInfo)
IsSourceBuild(build) == build.repository

\* ComponentInfo
Component(component_type, build) ==
    [component_type |-> component_type, build |-> build]

\* ToolConfig.components, in declaration order (names are unique); every
\* config that validates has source builds only
Configs ==
    UNION {[1..n -> {Component(t, SourceBuild) : t \in ComponentTypes}] :
              n \in 1..NumComponents}
NoConfig == <<>>
NamesOf(cfg) == {CompName(i) : i \in 1..Len(cfg)}

(***************************************************************************)
(* Data model (components/models/api_models.py).                           *)
(***************************************************************************)
DeploymentState ==
    {"pending", "running", "failed", "timed_out", "successful",
     "cancelling", "cancelled"}
Terminal == {"successful", "failed", "cancelled", "timed_out"}
DeploymentBuildState ==
    {"pending", "running", "failed", "successful", "unknown", "skipped"}
DeploymentRunState == {"pending", "failed", "successful", "skipped", "unknown"}

NO_ID_YET == "no-id-yet"
NO_BUILD_NEEDED == "no-build-needed"

\* a long_status: what the message says, and the component names it lists
LS(tag, error, names) == [tag |-> tag, error |-> error, names |-> names]
NoLS == LS("", "", <<>>)

DeploymentBuildInfo(id, st) ==
    [build_id |-> id, build_status |-> st, build_long_status |-> ""]
DeploymentRunInfo(st, msg) == [run_status |-> st, run_long_status |-> msg]

\* the runs and builds a new deployment is created with: one pending entry
\* per component of the config
InitialBuilds(cfg) ==
    [c \in NamesOf(cfg) |-> DeploymentBuildInfo(NO_ID_YET, "pending")]
InitialRuns(cfg) ==
    [c \in NamesOf(cfg) |-> DeploymentRunInfo("pending", "")]

\* Deployment.get_new_deployment
get_new_deployment(id, tool, cfg, t) ==
    [deploy_id |-> id,
     tool |-> tool,
     creation_time |-> t,
     builds |-> InitialBuilds(cfg),
     runs |-> InitialRuns(cfg),
     status |-> "pending",
     long_status |-> NoLS]

NoDeployment ==
    [deploy_id |-> 0, tool |-> "none", creation_time |-> 0, builds |-> <<>>,
     runs |-> <<>>, status |-> "none", long_status |-> NoLS]

VARIABLES
    now,          \* wall clock
    tool_config,  \* storage: tool -> config (NoConfig when absent)
    stored,       \* storage: deploy id -> Deployment, for the ids that exist
    tokens,       \* storage: tool -> DeployToken (NoToken when absent)
    pc,           \* engine task of each deployment: its position
    deployment,   \* engine task: its in-memory Deployment
    eng,          \* engine task: its other locals
    jobCalls,     \* per deployment, the calls of the jobs API made so far
    cancel,       \* the cancel handler
    nCancels,     \* cancel requests made so far
    req,          \* the deployment-create handler of each request
    auth,         \* the last token-authenticated request and its answer
    nAuths,       \* token-authenticated requests made so far
    nTokens,      \* deploy tokens generated so far
    tok,          \* the token handler run by each client
    sto,          \* outcome of the last direct call of the storage interface
    conf,         \* the config handler run by each client
    rt,           \* a call of the runtime's start_build: inputs and result
    envvars       \* envvars API: tool -> TOOL_DEPLOY_TOKEN (<<>> if unset)

vars == <<now, tool_config, stored, tokens, pc, deployment, eng, jobCalls,
          cancel, nCancels, req, auth, nAuths, nTokens, tok, sto,
          conf, rt, envvars>>

\* what the engine never touches
notEngine == <<tool_config, tokens, cancel, nCancels, req, auth, nAuths,
               nTokens, tok, sto, conf, rt, envvars>>
\* the engine tasks
engineVars == <<pc, deployment, eng, jobCalls>>
\* the token store and the authentication dependency
tokenVars == <<tokens, auth, nAuths, nTokens, tok, envvars>>
\* direct callers of the storage interface and clients of the config routes
callVars == <<sto, conf, rt>>
NoCall == [op |-> "none", result |-> "none"]
\* the operation called and how it ended
Call(op, result) == [op |-> op, result |-> result]

(***************************************************************************)
(* Storage.                                                                *)
(***************************************************************************)
\* KubernetesStorage._timeout_old_deployments: the sweep over a tool's
\* deployments
_timeout_old_deployments(st, tool, t) ==
    [d \in DOMAIN st |->
        IF /\ st[d].tool = tool
           /\ st[d].status \in {"pending", "running", "cancelling"}
           /\ t - st[d].creation_time > deployment_timeout
        THEN [st[d] EXCEPT !.status = "timed_out",
                           !.long_status = LS("Timed out", "", <<>>)]
        ELSE st[d]]

\* Storage.update_deployment: sweep, then upsert by deploy_id
update_deployment(st, d, dep, t) ==
    LET swept == _timeout_old_deployments(st, dep.tool, t)
    IN  [x \in DOMAIN swept \cup {d} |-> IF x = d THEN dep ELSE swept[x]]

\* Storage.list_deployments: sweep, then read
list_deployments(st, tool, t) == _timeout_old_deployments(st, tool, t)

\* KubernetesStorage.get_deployment: the deployment exists for the tool
Found(st, tool, d) == d \in DOMAIN st /\ st[d].tool = tool

\* KubernetesStorage.delete_deployment: get it, then remove it
delete_deployment(st, d) ==
    [x \in DOMAIN st \ {d} |-> st[x]]

\* the tool's deployments
OfTool(st, tool) == {d \in DOMAIN st : st[d].tool = tool}

\* KubernetesStorage.create_deployment: the API server refuses to create an
\* object whose name is taken
NameTaken(st, d) == d \in DOMAIN st

\* KubernetesStorage.create_deployment: create the object unless the name
\* is taken
create_deployment(st, d, dep) ==
    IF NameTaken(st, d)
    THEN st
    ELSE [x \in DOMAIN st \cup {d} |-> IF x = d THEN dep ELSE st[x]]

\* MockStorage.create_deployment: the dict entry is assigned
mock_create_deployment(st, d, dep) ==
    [x \in DOMAIN st \cup {d} |-> IF x = d THEN dep ELSE st[x]]

(***************************************************************************)
(* The runtime's start_build (components/runtime/toolforge.py).            *)
(***************************************************************************)
\* the builds the builds API lists for the tool
MaxBuilds == 2

BuildsBuildStatus ==
    {"BUILD_SUCCESS", "BUILD_PENDING", "BUILD_RUNNING", "BUILD_FAILURE"}
Hashes == {"h1", "h2"}

\* BuildsBuild.parameters: absent, or the image name and use_latest_versions
\* the build was started with
NoParameters == [image_name |-> "none", use_latest_versions |-> FALSE]
BuildsBuildParameters(image_name, use_latest_versions) ==
    [image_name |-> image_name, use_latest_versions |-> use_latest_versions]
ListedParameters ==
    {NoParameters, BuildsBuildParameters("c2", FALSE)}
        \cup {BuildsBuildParameters("c1", u) : u \in BOOLEAN}

\* BuildsBuild; build_id and start_time are 0 when absent
BuildsBuild(build_id, destination_image, parameters, build_status, resolved_ref, start_time) ==
    [build_id |-> build_id, destination_image |-> destination_image,
     parameters |-> parameters, status |-> build_status,
     resolved_ref |-> resolved_ref, start_time |-> start_time]
NoBuild == BuildsBuild(0, FALSE, NoParameters, "none", "none", 0)

\* what a listed build may look like: it has a build_id or not, and a
\* destination_image or not (one of the two at least)
BuildShapes ==
    {shape \in [has_id : BOOLEAN, destination_image : BOOLEAN,
                parameters : ListedParameters, status : BuildsBuildStatus,
                resolved_ref : Hashes, start_time : 0..MaxBuilds] :
        shape.has_id \/ shape.destination_image}

\* the builds the API lists: the build at position i is named i
ListedBuilds(shapes) ==
    [i \in DOMAIN shapes |->
        BuildsBuild(IF shapes[i].has_id THEN i ELSE 0,
                    shapes[i].destination_image, shapes[i].parameters,
                    shapes[i].status, shapes[i].resolved_ref,
                    shapes[i].start_time)]

\* what git ls-remote answers
GitOutcomes ==
    {[returncode |-> 1, stdout |-> <<>>],
     [returncode |-> 0, stdout |-> <<>>],
     [returncode |-> 0, stdout |-> <<"h1">>]}

\* _resolve_ref: "" when git fails, the first word of its output otherwise,
\* and BuildFailed when there is no output
_resolve_ref(git) ==
    IF git.returncode # 0 THEN ""
    ELSE IF git.stdout # <<>> THEN git.stdout[1]
    ELSE "BuildFailed"

\* sorted(builds, key=start_time, reverse=True): latest first, builds
\* without start_time last, equal keys in the order of the list
SortedBuilds(builds) ==
    LET n == Len(builds)
        Before(i, j) ==
            \/ builds[i].start_time > builds[j].start_time
            \/ builds[i].start_time = builds[j].start_time /\ i < j
        rank(i) == 1 + Cardinality({j \in 1..n : Before(j, i)})
    IN  [k \in 1..n |-> builds[CHOOSE i \in 1..n : rank(i) = k]]

\* the first build of the list among those at the given positions
FirstBuild(builds, positions) ==
    IF positions = {} THEN NoBuild
    ELSE builds[CHOOSE k \in positions : \A j \in positions : k <= j]

\* _resolve_ref raised inside _check_for_matching_build
ResolveFailed == [NoBuild EXCEPT !.status = "BuildFailed"]

\* a search for the latest build with the image name and the requested
\* use_latest_versions
_check_for_matching_build_mut(component_name, use_latest_versions, git, builds) ==
    LET sorted == SortedBuilds(builds)
        Matches(build) ==
            /\ build.parameters # NoParameters
            /\ build.parameters.image_name = component_name
            /\ build.parameters.use_latest_versions = use_latest_versions
        matching_build ==
            FirstBuild(sorted, {k \in 1..Len(sorted) : Matches(sorted[k])})
    IN  IF matching_build = NoBuild THEN NoBuild
        ELSE IF _resolve_ref(git) = "BuildFailed" THEN ResolveFailed
        ELSE IF matching_build.resolved_ref = _resolve_ref(git)
             THEN matching_build
             ELSE NoBuild

\* _check_for_matching_build: the latest build with the image name of the
\* component, provided it was built with the requested use_latest_versions
\* and from the commit the ref resolves to now; NoBuild when there is none,
\* ResolveFailed when _resolve_ref raises
_check_for_matching_build(component_name, use_latest_versions, git, builds) ==
    LET sorted == SortedBuilds(builds)
        Matches(build) ==
            /\ build.parameters # NoParameters
            /\ build.parameters.image_name = component_name
        matching_build ==
            FirstBuild(sorted, {k \in 1..Len(sorted) : Matches(sorted[k])})
    IN  IF matching_build = NoBuild THEN NoBuild
        ELSE IF matching_build.parameters.use_latest_versions
                    # use_latest_versions
             THEN NoBuild
        ELSE IF _resolve_ref(git) = "BuildFailed" THEN ResolveFailed
        ELSE IF matching_build.resolved_ref = _resolve_ref(git)
             THEN matching_build
             ELSE NoBuild

\* the DeploymentBuildInfo start_build returns
StartedBuildInfo(id, st, long_status) ==
    [build_id |-> id, build_status |-> st, build_long_status |-> long_status]

NoBuildInfo == StartedBuildInfo(0, "none", "")

\* what a call of start_build did: the builds it posted, the exception it
\* raised and the DeploymentBuildInfo it returned
Outcome(posted, raised, result) ==
    [posted |-> posted, raised |-> raised, result |-> result]
Raises(posted, exception) == Outcome(posted, exception, NoBuildInfo)
Returned(posted, result) == Outcome(posted, "none", result)

\* the name the builds API gives a new build
NewBuildId == MaxBuilds + 1

\* the POST to the builds API and the DeploymentBuildInfo of the new build
NewBuild ==
    Returned(1, StartedBuildInfo(NewBuildId, "pending", "Not started yet"))

\* ToolforgeRuntime.start_build
start_build_outcome(component_name, use_latest_versions, force_build, git, builds) ==
    LET matching_build ==
            _check_for_matching_build(component_name, use_latest_versions,
                                      git, builds)
    IN  IF force_build THEN NewBuild
        ELSE IF matching_build = ResolveFailed
             THEN Raises(0, "BuildFailed")
        ELSE IF matching_build = NoBuild THEN NewBuild
        ELSE IF matching_build.status = "BUILD_SUCCESS"
             THEN IF matching_build.build_id = 0
                     \/ ~matching_build.destination_image
                  THEN Raises(0, "Exception")
                  ELSE Returned(0, StartedBuildInfo(matching_build.build_id,
                                       "skipped", "Reusing existing build"))
        ELSE IF matching_build.status \in {"BUILD_PENDING", "BUILD_RUNNING"}
             THEN IF matching_build.build_id = 0
                  THEN Raises(0, "Exception")
                  ELSE Returned(0, StartedBuildInfo(matching_build.build_id,
                                       "pending", "Not started yet"))
        ELSE NewBuild

\* no call of start_build is being looked at
NoRt ==
    [pc |-> "none", builds |-> <<>>, use_latest_versions |-> FALSE,
     force_build |-> FALSE, git |-> [returncode |-> 0, stdout |-> <<>>],
     outcome |-> Raises(0, "none")]

\* a call of start_build for component c1
StartBuildCall(builds, use_latest_versions, force_build, git) ==
    [pc |-> "call", builds |-> builds,
     use_latest_versions |-> use_latest_versions,
     force_build |-> force_build, git |-> git, outcome |-> Raises(0, "none")]

start_build ==
    /\ rt.pc = "call"
    /\ rt' = [rt EXCEPT
           !.pc = "returned",
           !.outcome = start_build_outcome("c1", rt.use_latest_versions,
                                           rt.force_build, rt.git, rt.builds)]
    /\ UNCHANGED <<now, stored, tool_config, engineVars, cancel, nCancels,
                   req, tokenVars, sto, conf>>

(***************************************************************************)
(* The deployment engine (components/deploy_task.py).  Every storage write *)
(* and every runtime call is a suspension point of the task.               *)
(***************************************************************************)
NoEng ==
    [tool_config |-> NoConfig, idx |-> 0, pending_builds |-> <<>>,
     pidx |-> 0, to_delete |-> <<>>, start_time |-> 0, error |-> NoLS,
     all_builds |-> <<>>, failed_builds |-> <<>>]

\* the names of seq that are in keep, in order
RECURSIVE SelectNames(_, _)
SelectNames(seq, keep) ==
    IF seq = <<>> THEN <<>>
    ELSE IF Head(seq) \in keep
         THEN <<Head(seq)>> \o SelectNames(Tail(seq), keep)
         ELSE SelectNames(Tail(seq), keep)

NameSeq(cfg) == [i \in 1..Len(cfg) |-> CompName(i)]
SeqToSet(seq) == {seq[i] : i \in 1..Len(seq)}

\* _start_build as seen by _start_builds: a matching successful build
\* (skipped), a matching unfinished build or a new build (pending), or an
\* exception of the builds API
StartBuildOutcomes == {"skipped", "pending", "raise"}

\* _get_build_status: what the builds API may answer
BuildStatusOutcomes == {"running", "successful", "failed", "unknown"}

\* run_continuous_jobs: the job upsert returns a message or raises an
\* HTTPError, a read timeout of the transport, or another exception
RunJobOutcomes == {"ok", "HTTPError", "ReadTimeout", "Exception"}

\* _wait_for_builds: the builds the loop watches
WatchedBuilds(cfg, builds) ==
    SelectNames(NameSeq(cfg),
                {c \in DOMAIN builds :
                    builds[c].build_status \in {"pending", "running"}})

\* a poll loop without the timeout
WaitLoopContinues_mut(pending_builds, elapsed) ==
    pending_builds # <<>>

\* _wait_for_builds: the condition of the while loop
WaitLoopContinues(pending_builds, elapsed) ==
    pending_builds # <<>> /\ elapsed < build_timeout_seconds

\* _wait_for_builds: a polled build leaves the watch list
BuildFinished(st) == st \in {"successful", "failed"}

\* a build phase that reports no failed build
FailedBuilds_mut(cfg, builds) ==
    <<>>

\* _wait_for_builds: the builds reported by the final BuildFailed
FailedBuilds(cfg, builds) ==
    SelectNames(NameSeq(cfg),
                {c \in DOMAIN builds : builds[c].build_status = "failed"})

\* a failure wrapper that leaves the runs as they are
SkipPendingRuns_mut(runs) ==
    runs

\* set_deployment_as_failed_on_error: pending runs become skipped
SkipPendingRuns(runs) ==
    [c \in DOMAIN runs |->
        IF runs[c].run_status = "pending"
        THEN DeploymentRunInfo("skipped", "Skipped due to previous failure")
        ELSE runs[c]]

\* _do_run: only continuous components are run
IsSupported(component_type) == component_type = "continuous"

\* a write that stamps the deployment with the time of the write
_update_deployment_mut(r, dep) ==
    stored' = update_deployment(stored, dep.deploy_id,
                                [dep EXCEPT !.creation_time = now], now)

\* _update_deployment
_update_deployment(r, dep) ==
    stored' = update_deployment(stored, dep.deploy_id, dep, now)

\* the locals of a task that are still live at each position
EngAt(r, idx, pending, pidx, to_delete, start_time, error) ==
    [tool_config |-> eng[r].tool_config, idx |-> idx,
     pending_builds |-> pending, pidx |-> pidx, to_delete |-> to_delete,
     start_time |-> start_time, error |-> error,
     all_builds |-> <<>>, failed_builds |-> <<>>]
EngRaise(r, error) == EngAt(r, 0, <<>>, 0, <<>>, 0, error)
EngRun(r, idx) == EngAt(r, idx, <<>>, 0, <<>>, 0, NoLS)
EngDone(r) == EngAt(r, 0, <<>>, 0, <<>>, 0, NoLS)

\* _start_builds: the components whose build is a SourceBuildInfo
SourceBuilt(cfg) ==
    {CompName(i) : i \in {k \in 1..Len(cfg) : IsSourceBuild(cfg[k].build)}}

\* _start_builds: the entry recorded for a component whose build is not a
\* SourceBuildInfo
NoBuildNeeded == DeploymentBuildInfo(NO_BUILD_NEEDED, "successful")

\* _get_component_image_name: the name of the component itself for a source
\* build; any other build raises "unsupported build information"
UnsupportedBuild(component) == ~IsSourceBuild(component.build)
_get_component_image_name(component, component_name) == component_name

\* a call of the jobs API
JobCall(call, name, image) == [call |-> call, name |-> name, image |-> image]

\* _start_builds: the entry recorded for a component
StartedBuild(outcome) ==
    IF outcome = "raise"
    THEN DeploymentBuildInfo(NO_ID_YET, "failed")
    ELSE DeploymentBuildInfo("build-id", outcome)

\* _wait_for_builds: evaluate the loop condition with the given watch list
\* and clock, and leave the loop if it is false
WaitForBuilds(r, pending, builds, start_time, t) ==
    LET failed == FailedBuilds(eng[r].tool_config, builds)
    IN  IF WaitLoopContinues(pending, t - start_time)
        THEN /\ pc' = [pc EXCEPT ![r] = "poll"]
             /\ eng' = [eng EXCEPT ![r] =
                    EngAt(r, 0, pending, 1, <<>>, start_time, NoLS)]
        ELSE IF pending # <<>>
        THEN /\ pc' = [pc EXCEPT ![r] = "wrapper"]
             /\ eng' = [eng EXCEPT ![r] =
                    EngRaise(r, LS("BuildFailed",
                                   "Some builds took too long to finish",
                                   pending))]
        ELSE IF failed # <<>>
        THEN /\ pc' = [pc EXCEPT ![r] = "wrapper"]
             /\ eng' = [eng EXCEPT ![r] =
                    EngRaise(r, LS("BuildFailed", "Some builds failed",
                                   failed))]
        ELSE /\ pc' = [pc EXCEPT ![r] = "run"]
             /\ eng' = [eng EXCEPT ![r] = EngRun(r, 1)]

\* _do_run: after component idx comes the next one, or do_deploy returns
AfterRun(r) ==
    IF eng[r].idx + 1 > Len(eng[r].tool_config)
    THEN /\ pc' = [pc EXCEPT ![r] = "done"]
         /\ eng' = [eng EXCEPT ![r] = EngDone(r)]
    ELSE /\ pc' = [pc EXCEPT ![r] = "run"]
         /\ eng' = [eng EXCEPT ![r] = EngRun(r, eng[r].idx + 1)]

\* a run loop that goes on to the next component after a failed run
RunFailed_mut(r, c) ==
    AfterRun(r)

\* _do_run: raise RunFailed for component c
RunFailed(r, c) ==
    /\ pc' = [pc EXCEPT ![r] = "wrapper"]
    /\ eng' = [eng EXCEPT ![r] =
           EngRaise(r, LS("RunFailed", "Failed run for component", <<c>>))]

\* do_deploy, first step: status running, persisted
do_deploy(r) ==
    /\ pc[r] = "start"
    /\ LET dep == [deployment[r] EXCEPT
                      !.status = "running",
                      !.long_status = LS("Started at", "", <<>>)]
       IN  /\ deployment' = [deployment EXCEPT ![r] = dep]
           /\ _update_deployment(r, dep)
    /\ pc' = [pc EXCEPT ![r] = "start_builds"]
    /\ eng' = [eng EXCEPT ![r] = EngAt(r, 1, <<>>, 0, <<>>, 0, NoLS)]
    /\ UNCHANGED <<now, jobCalls, notEngine>>

\* a build start pass that stops at the first build that fails to start
_start_build_mut(r) ==
    /\ pc[r] = "start_builds"
    /\ eng[r].idx <= Len(eng[r].tool_config)
    /\ LET c == CompName(eng[r].idx)
       IN  \E outcome \in StartBuildOutcomes :
              IF outcome = "raise"
              THEN /\ pc' = [pc EXCEPT ![r] = "wrapper"]
                   /\ eng' = [eng EXCEPT ![r] =
                          EngRaise(r, LS("BuildFailed",
                                         "Some builds failed to start",
                                         <<c>>))]
              ELSE /\ pc' = pc
                   /\ eng' = [eng EXCEPT
                          ![r].idx = @ + 1,
                          ![r].all_builds = @ @@ (c :> StartedBuild(outcome))]
    /\ UNCHANGED <<now, stored, deployment, jobCalls, notEngine>>

\* _start_builds, one iteration of the for loop: start the build of a
\* component with a source build and record its entry in all_builds; an
\* exception is recorded as a failed entry and the loop goes on
_start_build(r) ==
    /\ pc[r] = "start_builds"
    /\ eng[r].idx <= Len(eng[r].tool_config)
    /\ LET c == CompName(eng[r].idx)
           component == eng[r].tool_config[eng[r].idx]
       IN  IF IsSourceBuild(component.build)
           THEN \E outcome \in StartBuildOutcomes :
                   eng' = [eng EXCEPT
                       ![r].idx = @ + 1,
                       ![r].all_builds = @ @@ (c :> StartedBuild(outcome)),
                       ![r].failed_builds =
                           IF outcome = "raise" THEN Append(@, c) ELSE @]
           ELSE eng' = [eng EXCEPT
                       ![r].idx = @ + 1,
                       ![r].all_builds = @ @@ (c :> NoBuildNeeded)]
    /\ UNCHANGED <<now, stored, pc, deployment, jobCalls, notEngine>>

\* _start_builds, after the loop: persist the builds map once, then raise
\* BuildFailed or enter _wait_for_builds
_start_builds(r) ==
    /\ pc[r] = "start_builds"
    /\ eng[r].idx > Len(eng[r].tool_config)
    /\ LET cfg == eng[r].tool_config
           all_builds == eng[r].all_builds
           failed_builds == eng[r].failed_builds
           dep == [deployment[r] EXCEPT !.builds = all_builds]
       IN  /\ deployment' = [deployment EXCEPT ![r] = dep]
           /\ _update_deployment(r, dep)
           /\ IF failed_builds # <<>>
              THEN /\ pc' = [pc EXCEPT ![r] = "wrapper"]
                   /\ eng' = [eng EXCEPT ![r] =
                          EngRaise(r, LS("BuildFailed",
                                         "Some builds failed to start",
                                         failed_builds))]
              ELSE WaitForBuilds(r, WatchedBuilds(cfg, all_builds),
                                 all_builds, now, now)
    /\ UNCHANGED <<now, jobCalls, notEngine>>

\* _wait_for_builds, one iteration of the for loop: poll one watched build
\* and persist the builds map if its status changed
_get_build_status(r) ==
    /\ pc[r] = "poll"
    /\ eng[r].pidx <= Len(eng[r].pending_builds)
    /\ \E st \in BuildStatusOutcomes :
          LET c == eng[r].pending_builds[eng[r].pidx]
              prev == deployment[r].builds[c]
              dep == [deployment[r] EXCEPT
                         !.builds[c] = DeploymentBuildInfo(prev.build_id, st)]
          IN  /\ deployment' = [deployment EXCEPT ![r] = dep]
              /\ IF prev.build_status # st
                 THEN _update_deployment(r, dep)
                 ELSE UNCHANGED stored
              /\ eng' = [eng EXCEPT
                     ![r].to_delete =
                         IF BuildFinished(st) THEN Append(@, c) ELSE @,
                     ![r].pidx = @ + 1]
    /\ UNCHANGED <<now, pc, jobCalls, notEngine>>

\* a loop that evaluates its condition with the time before the sleep
_sleep_mut(r) ==
    /\ pc[r] = "poll"
    /\ eng[r].pidx > Len(eng[r].pending_builds)
    /\ now + PollSleepSeconds <= MaxTime
    /\ now' = now + PollSleepSeconds
    /\ WaitForBuilds(r,
           SelectNames(eng[r].pending_builds,
                       SeqToSet(eng[r].pending_builds)
                           \ SeqToSet(eng[r].to_delete)),
           deployment[r].builds, eng[r].start_time, now)
    /\ UNCHANGED <<stored, deployment, jobCalls, notEngine>>

\* _wait_for_builds, end of an iteration: drop the finished builds, sleep,
\* and evaluate the loop condition again
_sleep(r) ==
    /\ pc[r] = "poll"
    /\ eng[r].pidx > Len(eng[r].pending_builds)
    /\ now + PollSleepSeconds <= MaxTime
    /\ now' = now + PollSleepSeconds
    /\ WaitForBuilds(r,
           SelectNames(eng[r].pending_builds,
                       SeqToSet(eng[r].pending_builds)
                           \ SeqToSet(eng[r].to_delete)),
           deployment[r].builds, eng[r].start_time, now')
    /\ UNCHANGED <<stored, deployment, jobCalls, notEngine>>

\* _do_run, start of an iteration: the run of component idx is pending
_do_run(r) ==
    /\ pc[r] = "run"
    /\ LET c == CompName(eng[r].idx)
           dep == [deployment[r] EXCEPT
                      !.runs[c] = DeploymentRunInfo("pending", "")]
       IN  /\ deployment' = [deployment EXCEPT ![r] = dep]
           /\ _update_deployment(r, dep)
    /\ pc' = [pc EXCEPT ![r] = "run_job"]
    /\ UNCHANGED <<now, eng, jobCalls, notEngine>>

\* _do_run: a component that is not continuous is skipped
_do_run_skip(r) ==
    /\ pc[r] = "run_job"
    /\ ~IsSupported(eng[r].tool_config[eng[r].idx].component_type)
    /\ LET c == CompName(eng[r].idx)
           dep == [deployment[r] EXCEPT
                      !.runs[c] = DeploymentRunInfo("skipped", "")]
       IN  /\ deployment' = [deployment EXCEPT ![r] = dep]
           /\ _update_deployment(r, dep)
    /\ AfterRun(r)
    /\ UNCHANGED <<now, jobCalls, notEngine>>

\* _do_run: upsert the job of component idx with the image of the component
\* and record the result; the image of a build that is not a SourceBuildInfo
\* raises before the jobs API is called
run_continuous_jobs(r) ==
    /\ pc[r] = "run_job"
    /\ IsSupported(eng[r].tool_config[eng[r].idx].component_type)
    /\ LET c == CompName(eng[r].idx)
           component == eng[r].tool_config[eng[r].idx]
       IN  IF UnsupportedBuild(component)
           THEN LET dep == [deployment[r] EXCEPT
                       !.runs[c] = DeploymentRunInfo("failed",
                                       "unsupported build information")]
                IN  /\ jobCalls' = jobCalls
                    /\ deployment' = [deployment EXCEPT ![r] = dep]
                    /\ _update_deployment(r, dep)
                    /\ RunFailed(r, c)
           ELSE /\ jobCalls' = [jobCalls EXCEPT ![r] =
                       Append(@, JobCall("upsert", c,
                                  _get_component_image_name(component, c)))]
                /\ \E outcome \in RunJobOutcomes :
                      IF outcome = "ok"
                      THEN LET dep == [deployment[r] EXCEPT
                                  !.status = "successful",
                                  !.long_status = LS("Finished at", "", <<>>),
                                  !.runs[c] = DeploymentRunInfo("successful",
                                                  "created continuous job")]
                           IN  /\ deployment' = [deployment EXCEPT ![r] = dep]
                               /\ _update_deployment(r, dep)
                               /\ AfterRun(r)
                      ELSE LET dep == [deployment[r] EXCEPT
                                  !.runs[c] =
                                      DeploymentRunInfo("failed", outcome)]
                           IN  /\ deployment' = [deployment EXCEPT ![r] = dep]
                               /\ _update_deployment(r, dep)
                               /\ RunFailed(r, c)
    /\ UNCHANGED <<now, notEngine>>

\* set_deployment_as_failed_on_error: the except branch
set_deployment_as_failed_on_error(r) ==
    /\ pc[r] = "wrapper"
    /\ LET dep == [deployment[r] EXCEPT
                      !.status = "failed",
                      !.long_status = LS("Got exception", eng[r].error.error,
                                         eng[r].error.names),
                      !.runs = SkipPendingRuns(@)]
       IN  /\ deployment' = [deployment EXCEPT ![r] = dep]
           /\ _update_deployment(r, dep)
    /\ pc' = [pc EXCEPT ![r] = "done"]
    /\ eng' = [eng EXCEPT ![r] = EngDone(r)]
    /\ UNCHANGED <<now, jobCalls, notEngine>>

\* do_deploy, first step, when storage.update_deployment raises:
\* _update_deployment raises HTTPException(500), which the wrapper catches
do_deploy_HTTPException(r) ==
    /\ pc[r] = "start"
    /\ deployment' = [deployment EXCEPT
           ![r] = [@ EXCEPT !.status = "running",
                            !.long_status = LS("Started at", "", <<>>)]]
    /\ pc' = [pc EXCEPT ![r] = "wrapper"]
    /\ eng' = [eng EXCEPT ![r] = EngRaise(r, LS("HTTPException", "500", <<>>))]
    /\ UNCHANGED <<now, stored, jobCalls, notEngine>>

\* set_deployment_as_failed_on_error, the except branch, when
\* storage.update_deployment raises: the HTTPException of _update_deployment
\* is raised inside the except branch and leaves the task
set_deployment_as_failed_on_error_HTTPException(r) ==
    /\ pc[r] = "wrapper"
    /\ deployment' = [deployment EXCEPT
           ![r] = [@ EXCEPT !.status = "failed",
                            !.long_status = LS("Got exception",
                                               eng[r].error.error,
                                               eng[r].error.names),
                            !.runs = SkipPendingRuns(@)]]
    /\ pc' = [pc EXCEPT ![r] = "HTTPException"]
    /\ eng' = [eng EXCEPT ![r] = EngDone(r)]
    /\ UNCHANGED <<now, stored, jobCalls, notEngine>>

Engine(r) ==
    \/ do_deploy(r)
    \/ _start_build(r)
    \/ _start_builds(r)
    \/ _get_build_status(r)
    \/ _sleep(r)
    \/ _do_run(r)
    \/ _do_run_skip(r)
    \/ run_continuous_jobs(r)
    \/ set_deployment_as_failed_on_error(r)

(***************************************************************************)
(* The cancel handler (components/api/tool_handlers.py).                   *)
(***************************************************************************)
NoCancel ==
    [pc |-> "idle", tool |-> "none", target |-> 0, copy |-> NoDeployment,
     resp |-> 0, engine_at |-> "none"]

\* a cancel handler that also accepts a failed deployment
Cancellable_mut(status) ==
    status \in {"pending", "running", "failed"}

\* cancel_tool_deployment: the states a deployment can be cancelled from
Cancellable(status) == status \in {"pending", "running"}

\* a deploy id that no deployment has
UnknownId == MaxRequests + 1

\* cancel_tool_deployment: read the deployment, answer 404 or 409 or go on
cancel_tool_deployment(tool, d) ==
    /\ cancel.pc = "idle"
    /\ nCancels < MaxCancels
    /\ nCancels' = nCancels + 1
    /\ LET st == stored
           request == [NoCancel EXCEPT !.tool = tool, !.target = d]
       IN  /\ stored' = stored
           /\ IF ~Found(st, tool, d)
              THEN cancel' = [request EXCEPT !.resp = 404]
              ELSE IF ~Cancellable(st[d].status)
              THEN cancel' = [request EXCEPT !.resp = 409]
              ELSE cancel' = [request EXCEPT !.pc = "write", !.copy = st[d]]
    /\ UNCHANGED <<now, tool_config, engineVars, req, tokenVars, callVars>>

\* cancel_tool_deployment: flag the copy as cancelling and write it back
\* (engine_at notes where the engine task was when the write landed)
cancel_write ==
    /\ cancel.pc = "write"
    /\ LET dep == [cancel.copy EXCEPT !.status = "cancelling"]
       IN  stored' = update_deployment(stored, dep.deploy_id, dep, now)
    /\ cancel' = [cancel EXCEPT !.pc = "idle", !.resp = 200,
                                !.copy = NoDeployment,
                                !.engine_at =
                                    IF cancel.target \in Reqs
                                    THEN pc[cancel.target] ELSE "none"]
    /\ UNCHANGED <<now, tool_config, engineVars, nCancels, req, tokenVars,
                   callVars>>

\* list_tool_deployments: a read, which runs the sweep
list_tool_deployments(tool) ==
    /\ stored' = list_deployments(stored, tool, now)
    /\ UNCHANGED <<now, tool_config, engineVars, cancel, nCancels, req,
                   tokenVars, callVars>>

\* time passes
Tick ==
    /\ now < MaxTime
    /\ now' = now + 1
    /\ UNCHANGED <<tool_config, stored, engineVars, cancel, nCancels, req,
                   tokenVars, callVars>>

(***************************************************************************)
(* Creating a deployment (components/api/tool_handlers.py).  Each storage  *)
(* call of the handler is a step; requests run concurrently.               *)
(***************************************************************************)
NoReq == [pc |-> "none", tool |-> "none", resp |-> 0, config |-> NoConfig]

\* a limit check that also counts the deployments being cancelled
ActiveDeployments_mut(st, tool) ==
    {d \in DOMAIN st :
        st[d].tool = tool
        /\ st[d].status \in {"running", "pending", "cancelling"}}

\* _check_active_deployments_limit: the deployments that count
ActiveDeployments(st, tool) ==
    {d \in DOMAIN st :
        st[d].tool = tool /\ st[d].status \in {"running", "pending"}}

\* create_tool_deployment, first call: list the tool's deployments and
\* answer 409 when the limit of active ones is reached
_check_active_deployments_limit(r, tool) ==
    /\ req[r].pc = "none"
    /\ LET st == list_deployments(stored, tool, now)
       IN  /\ stored' = st
           /\ IF Cardinality(ActiveDeployments(st, tool))
                     >= max_active_deployments
              THEN req' = [req EXCEPT ![r] =
                       [pc |-> "answered", tool |-> tool, resp |-> 409,
                        config |-> NoConfig]]
              ELSE req' = [req EXCEPT ![r] =
                       [pc |-> "checked", tool |-> tool, resp |-> 0,
                        config |-> NoConfig]]
    /\ UNCHANGED <<now, tool_config, engineVars, cancel, nCancels, tokenVars,
                   callVars>>

\* create_tool_deployment, second call: read the tool's config (404 when
\* the tool has none)
get_tool_config(r) ==
    /\ req[r].pc = "checked"
    /\ IF tool_config[req[r].tool] = NoConfig
       THEN req' = [req EXCEPT ![r].pc = "answered", ![r].resp = 404]
       ELSE req' = [req EXCEPT ![r].pc = "config",
                               ![r].config = tool_config[req[r].tool]]
    /\ UNCHANGED <<now, tool_config, stored, engineVars, cancel, nCancels,
                   tokenVars, callVars>>

\* create_tool_deployment, third call: persist the new deployment and
\* schedule its engine task with the config that was read; 500 when the
\* storage refuses the create
create_tool_deployment(r) ==
    /\ req[r].pc = "config"
    /\ LET tool == req[r].tool
           cfg == req[r].config
           dep == get_new_deployment(r, tool, cfg, now)
       IN  /\ stored' = create_deployment(stored, r, dep)
           /\ IF NameTaken(stored, r)
              THEN /\ req' = [req EXCEPT ![r].pc = "answered", ![r].resp = 500]
                   /\ UNCHANGED <<deployment, eng, pc>>
              ELSE /\ req' = [req EXCEPT ![r].pc = "answered", ![r].resp = 200]
                   /\ deployment' = [deployment EXCEPT ![r] = dep]
                   /\ eng' = [eng EXCEPT ![r] =
                                 [NoEng EXCEPT !.tool_config = cfg]]
                   /\ pc' = [pc EXCEPT ![r] = "start"]
    /\ UNCHANGED <<now, tool_config, jobCalls, cancel, nCancels, tokenVars,
                   callVars>>

(***************************************************************************)
(* Deploy tokens (components/api/tool_handlers.py) and the authentication  *)
(* of a deployment-create request (components/api/auth.py).                *)
(***************************************************************************)
NoToken == [token |-> 0, creation_date |-> 0]
NoAuth == [tool |-> "none", header |-> FALSE, token |-> <<>>, resp |-> 0]

\* str(token): the characters of a token
TokenStr(k) == <<k>>

\* the tool has no TOOL_DEPLOY_TOKEN envvar
NoEnvvar == <<>>

\* the token parameter of a request: absent, the characters of some token,
\* or those characters followed by one more
TokenParams ==
    {<<>>} \cup {TokenStr(k) : k \in 1..MaxTokens}
           \cup {Append(TokenStr(k), 0) : k \in 1..MaxTokens}

\* the clients whose token requests may be in flight together
Clients == {"a", "b"}
NoTok == [pc |-> "idle", op |-> "none", tool |-> "none", resp |-> 0,
          token |-> NoToken]

\* a client's token handler has answered
Answer(c, op, tool, resp, token) ==
    tok' = [tok EXCEPT ![c] = [pc |-> "idle", op |-> op, tool |-> tool,
                               resp |-> resp, token |-> token]]

\* a generator that hands out the same token again
_create_new_token_mut(tool) ==
    /\ nTokens < MaxTokens
    /\ nTokens' = nTokens + 1
    /\ tokens' = [tokens EXCEPT ![tool] =
           [token |-> 1, creation_date |-> now]]
    /\ envvars' = [envvars EXCEPT ![tool] = TokenStr(1)]

\* _create_new_token: DeployToken() with a fresh uuid, stored for the tool
\* (and, by the storage, set as the tool's TOOL_DEPLOY_TOKEN envvar)
_create_new_token(tool) ==
    /\ nTokens < MaxTokens
    /\ nTokens' = nTokens + 1
    /\ tokens' = [tokens EXCEPT ![tool] =
           [token |-> nTokens + 1, creation_date |-> now]]
    /\ envvars' = [envvars EXCEPT ![tool] = TokenStr(nTokens + 1)]

\* a check that never finds the tool's token
_raise_if_deploy_token_exists_mut(tool) ==
    FALSE

\* _raise_if_deploy_token_exists: TRUE when it raises the 409
_raise_if_deploy_token_exists(tool) ==
    tokens[tool] # NoToken

\* create_deploy_token, up to its check: 409 when the tool has a token
create_deploy_token(c, tool) ==
    /\ tok[c].pc = "idle"
    /\ IF _raise_if_deploy_token_exists(tool)
       THEN Answer(c, "create", tool, 409, NoToken)
       ELSE tok' = [tok EXCEPT ![c] = [pc |-> "new_token", op |-> "create",
                        tool |-> tool, resp |-> 0, token |-> NoToken]]
    /\ UNCHANGED <<now, tool_config, stored, engineVars, cancel, nCancels,
                   callVars,
                   req, auth, nAuths, tokens, envvars, nTokens>>

\* update_deploy_token, up to its read: 404 when the tool has no token
update_deploy_token(c, tool) ==
    /\ tok[c].pc = "idle"
    /\ IF tokens[tool] = NoToken
       THEN Answer(c, "update", tool, 404, NoToken)
       ELSE tok' = [tok EXCEPT ![c] = [pc |-> "new_token", op |-> "update",
                        tool |-> tool, resp |-> 0, token |-> NoToken]]
    /\ UNCHANGED <<now, tool_config, stored, engineVars, cancel, nCancels,
                   callVars,
                   req, auth, nAuths, tokens, envvars, nTokens>>

\* create_deploy_token / update_deploy_token: return _create_new_token(...)
return_new_token(c) ==
    /\ tok[c].pc = "new_token"
    /\ _create_new_token(tok[c].tool)
    /\ Answer(c, tok[c].op, tok[c].tool, 200, tokens'[tok[c].tool])
    /\ UNCHANGED <<now, tool_config, stored, engineVars, cancel, nCancels,
                   callVars,
                   req, auth, nAuths>>

\* get_deploy_token: 404 when the tool has no token, else the token
get_deploy_token(c, tool) ==
    /\ tok[c].pc = "idle"
    /\ IF tokens[tool] = NoToken
       THEN Answer(c, "get", tool, 404, NoToken)
       ELSE Answer(c, "get", tool, 200, tokens[tool])
    /\ UNCHANGED <<now, tool_config, stored, engineVars, cancel, nCancels,
                   callVars,
                   req, auth, nAuths, tokens, envvars, nTokens>>

\* delete_deploy_token: 404 when the tool has no token, else remove it and
\* return it
delete_deploy_token(c, tool) ==
    /\ tok[c].pc = "idle"
    /\ IF tokens[tool] = NoToken
       THEN Answer(c, "delete", tool, 404, NoToken)
       ELSE Answer(c, "delete", tool, 200, tokens[tool])
    /\ tokens' = [tokens EXCEPT ![tool] = NoToken]
    /\ envvars' = [envvars EXCEPT ![tool] = NoEnvvar]
    /\ UNCHANGED <<now, tool_config, stored, engineVars, cancel, nCancels,
                   callVars,
                   req, auth, nAuths, nTokens>>

\* a token check that never expires a token
Expired_mut(token, t) ==
    FALSE

\* ensure_token_or_auth: the stored token is too old
Expired(token, t) ==
    token.creation_date + token_lifetime < t

\* ensure_token_or_auth: the answer to a request for the tool with the
\* given header flag and token parameter
TokenOrAuth(tool, header, token) ==
    IF ~header /\ token = <<>> THEN 401
    ELSE IF header THEN 200
    ELSE IF tokens[tool] = NoToken THEN 401
    ELSE IF TokenStr(tokens[tool].token) # token THEN 401
    ELSE IF Expired(tokens[tool], now) THEN 401
    ELSE 200

\* ensure_token_or_auth, run for a deployment-create request
ensure_token_or_auth(tool, header, token) ==
    /\ nAuths < MaxAuths
    /\ nAuths' = nAuths + 1
    /\ auth' = [tool |-> tool, header |-> header, token |-> token,
                resp |-> TokenOrAuth(tool, header, token)]
    /\ UNCHANGED <<now, tool_config, stored, engineVars, cancel, nCancels,
                   callVars,
                   req, tokens, envvars, nTokens, tok>>

\* ensure_token_or_auth raises for a deployment-create request: the request
\* is answered 401 and its handler is not called
ensure_token_or_auth_401(r, tool, header, token) ==
    /\ req[r].pc = "none"
    /\ TokenOrAuth(tool, header, token) = 401
    /\ req' = [req EXCEPT ![r] =
           [pc |-> "answered", tool |-> tool, resp |-> 401,
            config |-> NoConfig]]
    /\ UNCHANGED <<now, tool_config, stored, engineVars, cancel, nCancels,
                   tokenVars, callVars>>

\* a create call that fails after the deployment has been stored
create_tool_deployment_StorageError_mut(r) ==
    /\ req[r].pc = "config"
    /\ stored' = create_deployment(stored, r,
           get_new_deployment(r, req[r].tool, req[r].config, now))
    /\ req' = [req EXCEPT ![r].pc = "answered", ![r].resp = 500]
    /\ UNCHANGED <<now, tool_config, engineVars, cancel, nCancels, tokenVars,
                   callVars>>

\* create_tool_deployment, third call, when storage.create_deployment raises
\* for an error of the Kubernetes API: nothing is stored, the request is
\* answered 500 and no task is scheduled
create_tool_deployment_StorageError(r) ==
    /\ req[r].pc = "config"
    /\ stored' = stored
    /\ req' = [req EXCEPT ![r].pc = "answered", ![r].resp = 500]
    /\ UNCHANGED <<now, tool_config, engineVars, cancel, nCancels, tokenVars,
                   callVars>>

(***************************************************************************)
(* Tool configs (components/api/tool_handlers.py) on the Kubernetes        *)
(* storage (components/storage/kubernetes.py).  Each call of the           *)
(* Kubernetes API is a step; any call may also fail with an API error      *)
(* other than not-found and conflict.                                      *)
(***************************************************************************)
NoConf == [pc |-> "idle", op |-> "none", tool |-> "none", config |-> NoConfig,
           resp |-> 0, data |-> NoConfig, error |-> "none", body |-> <<>>,
           names |-> {}]

\* the configs clients send
Payloads == {cfg \in Configs : Len(cfg) = 1}

\* how a call of the Kubernetes API goes: it is served, or fails with an
\* error that is neither 404 nor 409
ApiOutcomes == {"served", "ApiException"}

\* the exceptions a handler's try block can meet; a Kubernetes 409 that
\* the storage does not handle arrives as ApiException
Exceptions ==
    {"NotFoundInStorage", "StorageError", "ApiException", "HTTPException"}
Handlers ==
    {"get_tool_config", "update_tool_config", "delete_tool_config",
     "get_tool_deployment", "cancel_tool_deployment", "list_tool_deployments",
     "create_tool_deployment", "delete_tool_deployment",
     "create_deploy_token", "update_deploy_token", "get_deploy_token",
     "delete_deploy_token"}
\* the answer is the exception, raised again as it is or never caught
Raised == 0

\* handlers that all answer 404 to NotFoundInStorage, let an HTTPException
\* pass and answer 500 to the rest
HandlerAnswer_mut(handler, exception) ==
    CASE exception = "NotFoundInStorage" -> 404
      [] exception = "HTTPException" -> Raised
      [] OTHER -> 500

\* the except clauses of a handler: the status it answers when the
\* exception is raised inside its try block
HandlerAnswer(handler, exception) ==
    CASE handler \in {"update_tool_config", "delete_tool_config",
                      "create_tool_deployment"} -> 500
      [] handler \in {"get_tool_config", "get_tool_deployment",
                      "list_tool_deployments", "delete_tool_deployment",
                      "get_deploy_token", "delete_deploy_token"} ->
            IF exception = "NotFoundInStorage" THEN 404 ELSE 500
      [] handler = "cancel_tool_deployment" ->
            CASE exception = "NotFoundInStorage" -> 404
              [] exception = "HTTPException" -> Raised
              [] OTHER -> 500
      [] handler = "create_deploy_token" ->
            IF exception = "HTTPException" THEN Raised ELSE 500
      [] handler = "update_deploy_token" ->
            IF exception = "NotFoundInStorage" THEN 404 ELSE Raised

\* a client's config handler has answered
Reply(c, op, tool, resp, data) ==
    conf' = [conf EXCEPT ![c] = [pc |-> "idle", op |-> op, tool |-> tool,
                                 config |-> NoConfig, resp |-> resp,
                                 data |-> data, error |-> "none",
                                 body |-> <<>>, names |-> {}]]

\* a client's config handler has caught an exception: the status of its
\* except clause, with the exception logged and, in update and delete, its
\* text in the answer
Fail(c, op, tool, handler, exception) ==
    conf' = [conf EXCEPT ![c] = [pc |-> "idle", op |-> op, tool |-> tool,
                                 config |-> NoConfig,
                                 resp |-> HandlerAnswer(handler, exception),
                                 data |-> NoConfig, error |-> exception,
                                 body |-> <<>>, names |-> {}]]

\* a client's config handler goes on to its next storage call
Goto(c, pc_, op, tool, config, data) ==
    conf' = [conf EXCEPT ![c] = [pc |-> pc_, op |-> op, tool |-> tool,
                                 config |-> config, resp |-> 0,
                                 data |-> data, error |-> "none",
                                 body |-> <<>>, names |-> {}]]

\* the builds of the components of a request body
Builds == {SourceBuild} \cup {Reference(AllNames[i]) : i \in 1..Len(AllNames)}
\* request bodies: components c1..cn, each of type continuous, with a build
Bodies == UNION {[1..n -> Builds] : n \in 1..NumComponents}

\* ComponentInfo.build is a SourceBuildInfo: repository and ref are
\* required, so a build without them is a validation error at
\* components -> <name> -> build -> repository
MissingFields(body) == {i \in 1..Len(body) : ~IsSourceBuild(body[i])}

\* the names in the messages of _format_validation_error: the component of
\* the location and, in the received value, the reuse_from of its build
ErrorNames(body) ==
    UNION {{CompName(i), body[i].reuse_from} : i \in MissingFields(body)}

\* the ToolConfig parsed from a body that validates
ToolConfigOf(body) == [i \in 1..Len(body) |-> Component("continuous", body[i])]

\* the request is answered 422 by validation_exception_handler, before any
\* handler runs
Reject(c, tool, body) ==
    conf' = [conf EXCEPT ![c] = [pc |-> "idle", op |-> "update", tool |-> tool,
                                 config |-> NoConfig, resp |-> 422,
                                 data |-> NoConfig,
                                 error |-> "RequestValidationError",
                                 body |-> body, names |-> ErrorNames(body)]]

\* get_tool_config, for a GET of the config
GetToolConfig(c, tool, outcome) ==
    /\ conf[c].pc = "idle"
    /\ IF outcome = "ApiException"
       THEN Fail(c, "get", tool, "get_tool_config",
                        "StorageError")
       ELSE IF tool_config[tool] = NoConfig
       THEN Fail(c, "get", tool, "get_tool_config",
                        "NotFoundInStorage")
       ELSE Reply(c, "get", tool, 200, tool_config[tool])
    /\ UNCHANGED <<now, tool_config, stored, engineVars, cancel, nCancels,
                   req, tokenVars, sto, rt>>

\* update_tool_config, set_tool_config up to its first call:
\* _create_tool_config, which the API refuses with 409 when a config exists
update_tool_config(c, tool, config, outcome) ==
    /\ conf[c].pc = "idle"
    /\ IF outcome = "ApiException"
       THEN /\ Fail(c, "update", tool, "update_tool_config",
                        "StorageError")
            /\ UNCHANGED tool_config
       ELSE IF tool_config[tool] = NoConfig
       THEN /\ tool_config' = [tool_config EXCEPT ![tool] = config]
            /\ Reply(c, "update", tool, 200, config)
       ELSE /\ Goto(c, "set_delete", "update", tool, config, NoConfig)
            /\ UNCHANGED tool_config
    /\ UNCHANGED <<now, stored, engineVars, cancel, nCancels, req, tokenVars,
                   sto, rt>>

\* set_tool_config after the 409: _delete_tool_config
set_tool_config_delete(c, outcome) ==
    /\ conf[c].pc = "set_delete"
    /\ LET tool == conf[c].tool
       IN  IF outcome = "ApiException"
           THEN /\ Fail(c, "update", tool, "update_tool_config",
                        "StorageError")
                /\ UNCHANGED tool_config
           ELSE IF tool_config[tool] = NoConfig
           THEN /\ Fail(c, "update", tool, "update_tool_config",
                        "NotFoundInStorage")
                /\ UNCHANGED tool_config
           ELSE /\ tool_config' = [tool_config EXCEPT ![tool] = NoConfig]
                /\ Goto(c, "set_create", "update", tool, conf[c].config,
                        NoConfig)
    /\ UNCHANGED <<now, stored, engineVars, cancel, nCancels, req, tokenVars,
                   sto, rt>>

\* an update that stops after the delete
set_tool_config_create_mut(c, outcome) ==
    /\ conf[c].pc = "set_create"
    /\ Reply(c, "update", conf[c].tool, 200, conf[c].config)
    /\ UNCHANGED <<now, tool_config, stored, engineVars, cancel, nCancels,
                   req, tokenVars, sto, rt>>

\* set_tool_config after the delete: _create_tool_config again, whose 409
\* is not handled a second time
set_tool_config_create(c, outcome) ==
    /\ conf[c].pc = "set_create"
    /\ LET tool == conf[c].tool
       IN  IF outcome = "ApiException"
           THEN /\ Fail(c, "update", tool, "update_tool_config",
                        "StorageError")
                /\ UNCHANGED tool_config
           ELSE IF tool_config[tool] # NoConfig
           THEN /\ Fail(c, "update", tool, "update_tool_config",
                        "ApiException")
                /\ UNCHANGED tool_config
           ELSE /\ tool_config' = [tool_config EXCEPT ![tool] = conf[c].config]
                /\ Reply(c, "update", tool, 200, conf[c].config)
    /\ UNCHANGED <<now, stored, engineVars, cancel, nCancels, req, tokenVars,
                   sto, rt>>

\* POST of a config: the body is parsed into a ToolConfig and, when it
\* validates, handed to update_tool_config
PostToolConfig(c, tool, body, outcome) ==
    IF MissingFields(body) # {}
    THEN /\ conf[c].pc = "idle"
         /\ Reject(c, tool, body)
         /\ UNCHANGED <<now, tool_config, stored, engineVars, cancel, nCancels,
                        req, tokenVars, sto, rt>>
    ELSE update_tool_config(c, tool, ToolConfigOf(body), outcome)

\* delete_tool_config, storage.delete_tool_config up to its first call:
\* get_tool_config
delete_tool_config(c, tool, outcome) ==
    /\ conf[c].pc = "idle"
    /\ IF outcome = "ApiException"
       THEN Fail(c, "delete", tool, "delete_tool_config",
                        "StorageError")
       ELSE IF tool_config[tool] = NoConfig
       THEN Fail(c, "delete", tool, "delete_tool_config",
                        "NotFoundInStorage")
       ELSE Goto(c, "delete", "delete", tool, NoConfig, tool_config[tool])
    /\ UNCHANGED <<now, tool_config, stored, engineVars, cancel, nCancels,
                   req, tokenVars, sto, rt>>

\* storage.delete_tool_config, second call: _delete_tool_config; the old
\* config is returned
delete_tool_config_delete(c, outcome) ==
    /\ conf[c].pc = "delete"
    /\ LET tool == conf[c].tool
       IN  IF outcome = "ApiException"
           THEN /\ Fail(c, "delete", tool, "delete_tool_config",
                        "StorageError")
                /\ UNCHANGED tool_config
           ELSE IF tool_config[tool] = NoConfig
           THEN /\ Fail(c, "delete", tool, "delete_tool_config",
                        "NotFoundInStorage")
                /\ UNCHANGED tool_config
           ELSE /\ tool_config' = [tool_config EXCEPT ![tool] = NoConfig]
                /\ Reply(c, "delete", tool, 200, conf[c].data)
    /\ UNCHANGED <<now, stored, engineVars, cancel, nCancels, req, tokenVars,
                   sto, rt>>

(***************************************************************************)
(* Engine specification: one deployment has been created and its engine    *)
(* task scheduled; the cancel handler and reads of the tool's deployments  *)
(* run concurrently with it.  Time advances by the sleep of the poll loop. *)
(***************************************************************************)
InitEngineOver(configs) ==
    /\ now = 0
    /\ \E cfg \in configs :
          /\ tool_config = [t \in Tools |-> IF t = "t1" THEN cfg ELSE NoConfig]
          /\ stored = [d \in {1} |-> get_new_deployment(1, "t1", cfg, 0)]
          /\ deployment = [r \in Reqs |->
                IF r = 1 THEN get_new_deployment(1, "t1", cfg, 0)
                ELSE NoDeployment]
          /\ eng = [r \in Reqs |->
                IF r = 1 THEN [NoEng EXCEPT !.tool_config = cfg] ELSE NoEng]
    /\ pc = [r \in Reqs |-> IF r = 1 THEN "start" ELSE "none"]
    /\ jobCalls = [r \in Reqs |-> <<>>]
    /\ cancel = NoCancel
    /\ nCancels = 0
    /\ req = [r \in Reqs |-> NoReq]
    /\ tokens = [t \in Tools |-> NoToken]
    /\ envvars = [t \in Tools |-> NoEnvvar]
    /\ auth = NoAuth
    /\ nAuths = 0
    /\ nTokens = 0
    /\ tok = [c \in Clients |-> NoTok]
    /\ sto = NoCall
    /\ conf = [c \in Clients |-> NoConf]
    /\ rt = NoRt

InitEngine == InitEngineOver(Configs)

NextEngine ==
    \/ \E r \in Reqs : Engine(r)
    \/ \E t \in Tools, d \in DOMAIN stored \cup {UnknownId} :
          cancel_tool_deployment(t, d)
    \/ cancel_write
    \/ \E t \in Tools : list_tool_deployments(t)

SpecEngine == InitEngine /\ [][NextEngine]_vars

\* The engine given a config whose second component re-uses the build of the
\* first (the config the deploy task tests build by hand).
ReuseConfigs ==
    {<<Component(t, SourceBuild), Component(u, Reference("c1"))>> :
        t \in ComponentTypes, u \in ComponentTypes}

NextReuse == \E r \in Reqs : Engine(r)

SpecReuse == InitEngineOver(ReuseConfigs) /\ [][NextReuse]_vars

\* The engine with a storage whose writes may fail.
NextWriteFails ==
    \/ \E r \in Reqs : Engine(r)
    \/ \E r \in Reqs : do_deploy_HTTPException(r)
    \/ \E r \in Reqs : set_deployment_as_failed_on_error_HTTPException(r)

SpecWriteFails == InitEngine /\ [][NextWriteFails]_vars

\* The engine on its own schedule: the task runs in a worker thread, so each
\* of its steps is eventually taken.
NextPoll ==
    \/ \E r \in Reqs : Engine(r)
    \/ \E t \in Tools : list_tool_deployments(t)

SpecPollFair ==
    /\ InitEngine
    /\ [][NextPoll]_vars
    /\ \A r \in Reqs : WF_vars(Engine(r))

(***************************************************************************)
(* Admission specification: a tool with a config and at most one earlier   *)
(* deployment, in any status, receives concurrent create requests.         *)
(***************************************************************************)
OldId == MaxRequests + 2
OneComponent == <<Component("continuous", SourceBuild)>>

InitAdmission ==
    /\ now = 0
    /\ tool_config =
           [t \in Tools |-> IF t = "t1" THEN OneComponent ELSE NoConfig]
    /\ \/ stored = [d \in {} |-> NoDeployment]
       \/ \E status \in DeploymentState :
             stored = [d \in {OldId} |->
                 [get_new_deployment(OldId, "t1", OneComponent, 0)
                     EXCEPT !.status = status]]
    /\ deployment = [r \in Reqs |-> NoDeployment]
    /\ eng = [r \in Reqs |-> NoEng]
    /\ pc = [r \in Reqs |-> "none"]
    /\ jobCalls = [r \in Reqs |-> <<>>]
    /\ cancel = NoCancel
    /\ nCancels = 0
    /\ req = [r \in Reqs |-> NoReq]
    /\ tokens = [t \in Tools |-> NoToken]
    /\ envvars = [t \in Tools |-> NoEnvvar]
    /\ auth = NoAuth
    /\ nAuths = 0
    /\ nTokens = 0
    /\ tok = [c \in Clients |-> NoTok]
    /\ sto = NoCall
    /\ conf = [c \in Clients |-> NoConf]
    /\ rt = NoRt

NextAdmission ==
    \/ \E r \in Reqs, t \in Tools : _check_active_deployments_limit(r, t)
    \/ \E r \in Reqs : get_tool_config(r)
    \/ \E r \in Reqs : create_tool_deployment(r)
    \/ \E t \in Tools, d \in DOMAIN stored \cup {UnknownId} :
          cancel_tool_deployment(t, d)
    \/ cancel_write
    \/ \E t \in Tools : list_tool_deployments(t)
    \/ Tick

SpecAdmission == InitAdmission /\ [][NextAdmission]_vars

\* Create requests from authentication to the scheduling of the engine
\* task, with a storage whose create may fail.
NextCreate ==
    \/ \E r \in Reqs, t \in Tools, header \in BOOLEAN, token \in TokenParams :
          ensure_token_or_auth_401(r, t, header, token)
    \/ \E r \in Reqs, t \in Tools : _check_active_deployments_limit(r, t)
    \/ \E r \in Reqs : get_tool_config(r)
    \/ \E r \in Reqs : create_tool_deployment(r)
    \/ \E r \in Reqs : create_tool_deployment_StorageError(r)
    \/ \E t \in Tools, d \in DOMAIN stored \cup {UnknownId} :
          cancel_tool_deployment(t, d)
    \/ cancel_write
    \/ Tick

SpecCreate == InitAdmission /\ [][NextCreate]_vars

(***************************************************************************)
(* Token specification: a tool maintainer creates, refreshes and deletes   *)
(* tokens while time passes and create requests are authenticated.         *)
(***************************************************************************)
Maintainer == "a"

InitAuth ==
    /\ now = 0
    /\ tool_config = [t \in Tools |-> NoConfig]
    /\ stored = [d \in {} |-> NoDeployment]
    /\ deployment = [r \in Reqs |-> NoDeployment]
    /\ eng = [r \in Reqs |-> NoEng]
    /\ pc = [r \in Reqs |-> "none"]
    /\ jobCalls = [r \in Reqs |-> <<>>]
    /\ cancel = NoCancel
    /\ nCancels = 0
    /\ req = [r \in Reqs |-> NoReq]
    /\ tokens = [t \in Tools |-> NoToken]
    /\ envvars = [t \in Tools |-> NoEnvvar]
    /\ auth = NoAuth
    /\ nAuths = 0
    /\ nTokens = 0
    /\ tok = [c \in Clients |-> NoTok]
    /\ sto = NoCall
    /\ conf = [c \in Clients |-> NoConf]
    /\ rt = NoRt

NextAuth ==
    \/ \E t \in Tools : create_deploy_token(Maintainer, t)
    \/ \E t \in Tools : update_deploy_token(Maintainer, t)
    \/ return_new_token(Maintainer)
    \/ \E t \in Tools : get_deploy_token(Maintainer, t)
    \/ \E t \in Tools : delete_deploy_token(Maintainer, t)
    \/ \E t \in Tools, header \in BOOLEAN, token \in TokenParams :
          ensure_token_or_auth(t, header, token)
    \/ Tick

SpecAuth == InitAuth /\ [][NextAuth]_vars

(***************************************************************************)
(* Token-handler specification: two clients create, refresh, read and      *)
(* delete the tools' tokens concurrently while time passes.                *)
(***************************************************************************)
NextToken ==
    \/ \E c \in Clients, t \in Tools : create_deploy_token(c, t)
    \/ \E c \in Clients, t \in Tools : update_deploy_token(c, t)
    \/ \E c \in Clients : return_new_token(c)
    \/ \E c \in Clients, t \in Tools : get_deploy_token(c, t)
    \/ \E c \in Clients, t \in Tools : delete_deploy_token(c, t)
    \/ Tick

SpecToken == InitAuth /\ [][NextToken]_vars

(***************************************************************************)
(* Storage specifications: the deployment operations of the storage        *)
(* interface are called directly, in any order, while time passes.         *)
(***************************************************************************)
Ids == 1..MaxIds

\* the name a caller gives a new deployment: the first one not in use
FreshId(d) ==
    /\ d \in Ids \ DOMAIN stored
    /\ \A x \in Ids \ DOMAIN stored : d <= x

\* the statuses the engine and the cancel handler write
WrittenStates == {"running", "cancelling", "successful", "failed"}

CreateDeployment(tool, d) ==
    /\ FreshId(d) \/ Found(stored, tool, d)
    /\ LET dep == get_new_deployment(d, tool, OneComponent, now)
       IN  stored' = create_deployment(stored, d, dep)
    /\ sto' = Call("create",
                   IF NameTaken(stored, d) THEN "StorageError" ELSE "ok")
    /\ UNCHANGED <<now, tool_config, engineVars, cancel, nCancels, req,
                   tokenVars, conf, rt>>

UpdateDeployment(tool, d, status) ==
    /\ Found(stored, tool, d)
    /\ LET dep == [stored[d] EXCEPT !.status = status]
       IN  stored' = update_deployment(stored, d, dep, now)
    /\ sto' = Call("update", "ok")
    /\ UNCHANGED <<now, tool_config, engineVars, cancel, nCancels, req,
                   tokenVars, conf, rt>>

GetDeployment(tool, d) ==
    /\ stored' = stored
    /\ sto' = Call("get", IF Found(stored, tool, d)
                          THEN "ok" ELSE "NotFoundInStorage")
    /\ UNCHANGED <<now, tool_config, engineVars, cancel, nCancels, req,
                   tokenVars, conf, rt>>

ListDeployments(tool) ==
    /\ stored' = list_deployments(stored, tool, now)
    /\ sto' = Call("list", "ok")
    /\ UNCHANGED <<now, tool_config, engineVars, cancel, nCancels, req,
                   tokenVars, conf, rt>>

DeleteDeployment(tool, d) ==
    /\ IF Found(stored, tool, d)
       THEN /\ stored' = delete_deployment(stored, d)
            /\ sto' = Call("delete", "ok")
       ELSE /\ stored' = stored
            /\ sto' = Call("delete", "NotFoundInStorage")
    /\ UNCHANGED <<now, tool_config, engineVars, cancel, nCancels, req,
                   tokenVars, conf, rt>>

\* MockStorage.create_deployment, called directly
MockCreateDeployment(tool, d) ==
    /\ FreshId(d) \/ Found(stored, tool, d)
    /\ LET dep == get_new_deployment(d, tool, OneComponent, now)
       IN  stored' = mock_create_deployment(stored, d, dep)
    /\ sto' = Call("create", "ok")
    /\ UNCHANGED <<now, tool_config, engineVars, cancel, nCancels, req,
                   tokenVars, conf, rt>>

\* MockStorage.get_deployment, called directly
MockGetDeployment(tool, d) ==
    /\ sto' = Call("get", IF Found(stored, tool, d)
                          THEN "ok" ELSE "NotFoundInStorage")
    /\ UNCHANGED <<now, tool_config, stored, engineVars, cancel, nCancels,
                   req, tokenVars, conf, rt>>

\* time passes until every deployment that exists is older than
\* deployment_timeout
Later ==
    /\ now + deployment_timeout + 1 <= MaxTime
    /\ now' = now + deployment_timeout + 1
    /\ UNCHANGED <<tool_config, stored, engineVars, cancel, nCancels, req,
                   tokenVars, callVars>>

InitIdle ==
    /\ now = 0
    /\ tool_config = [t \in Tools |-> NoConfig]
    /\ stored = [d \in {} |-> NoDeployment]
    /\ deployment = [r \in Reqs |-> NoDeployment]
    /\ eng = [r \in Reqs |-> NoEng]
    /\ pc = [r \in Reqs |-> "none"]
    /\ jobCalls = [r \in Reqs |-> <<>>]
    /\ cancel = NoCancel
    /\ nCancels = 0
    /\ req = [r \in Reqs |-> NoReq]
    /\ tokens = [t \in Tools |-> NoToken]
    /\ envvars = [t \in Tools |-> NoEnvvar]
    /\ auth = NoAuth
    /\ nAuths = 0
    /\ nTokens = 0
    /\ tok = [c \in Clients |-> NoTok]
    /\ sto = NoCall
    /\ conf = [c \in Clients |-> NoConf]

InitStorage == InitIdle /\ rt = NoRt

\* the five operations on two deployment names, second by second
TwoIds == {1, 2}

NextStorage ==
    \/ \E t \in Tools, d \in TwoIds : CreateDeployment(t, d)
    \/ \E t \in Tools, d \in TwoIds, status \in WrittenStates :
          UpdateDeployment(t, d, status)
    \/ \E t \in Tools, d \in TwoIds : GetDeployment(t, d)
    \/ \E t \in Tools : ListDeployments(t)
    \/ \E t \in Tools, d \in TwoIds : DeleteDeployment(t, d)
    \/ Tick

SpecStorage == InitStorage /\ [][NextStorage]_vars

\* start_build called once on every list of builds, request and git answer
InitStartBuild ==
    /\ InitIdle
    /\ \E n \in 0..MaxBuilds : \E shapes \in [1..n -> BuildShapes] :
          \E u \in BOOLEAN, f \in BOOLEAN, g \in GitOutcomes :
              rt = StartBuildCall(ListedBuilds(shapes), u, f, g)

NextStartBuild == start_build

SpecStartBuild == InitStartBuild /\ [][NextStartBuild]_vars

\* creations beyond max_deployments_retained, with deployments finishing,
\* being deleted and growing old in between
NextRetention ==
    \/ \E t \in Tools, d \in Ids : CreateDeployment(t, d)
    \/ \E t \in Tools, d \in Ids : UpdateDeployment(t, d, "successful")
    \/ \E t \in Tools, d \in Ids : DeleteDeployment(t, d)
    \/ Later

SpecRetention == InitStorage /\ [][NextRetention]_vars

\* the mock backend
NextMockStorage ==
    \/ \E t \in Tools, d \in Ids : MockCreateDeployment(t, d)
    \/ \E t \in Tools, d \in Ids : MockGetDeployment(t, d)
    \/ Tick

SpecMockStorage == InitStorage /\ [][NextMockStorage]_vars

(***************************************************************************)
(* Config specification: two clients read, set and delete the tools'       *)
(* configs concurrently.                                                   *)
(***************************************************************************)
NextConfig ==
    \/ \E c \in Clients, t \in Tools, o \in ApiOutcomes :
          GetToolConfig(c, t, o)
    \/ \E c \in Clients, t \in Tools, cfg \in Payloads, o \in ApiOutcomes :
          update_tool_config(c, t, cfg, o)
    \/ \E c \in Clients, o \in ApiOutcomes : set_tool_config_delete(c, o)
    \/ \E c \in Clients, o \in ApiOutcomes : set_tool_config_create(c, o)
    \/ \E c \in Clients, t \in Tools, o \in ApiOutcomes :
          delete_tool_config(c, t, o)
    \/ \E c \in Clients, o \in ApiOutcomes : delete_tool_config_delete(c, o)

SpecConfig == InitStorage /\ [][NextConfig]_vars

\* one client's config requests, one after the other
NextConfigSeq ==
    \/ \E t \in Tools, o \in ApiOutcomes : GetToolConfig(Maintainer, t, o)
    \/ \E t \in Tools, cfg \in Payloads, o \in ApiOutcomes :
          update_tool_config(Maintainer, t, cfg, o)
    \/ \E o \in ApiOutcomes : set_tool_config_delete(Maintainer, o)
    \/ \E o \in ApiOutcomes : set_tool_config_create(Maintainer, o)
    \/ \E t \in Tools, o \in ApiOutcomes :
          delete_tool_config(Maintainer, t, o)
    \/ \E o \in ApiOutcomes : delete_tool_config_delete(Maintainer, o)

SpecConfigSeq == InitStorage /\ [][NextConfigSeq]_vars

\* one client posting configs, valid or not, and reading them
NextValidate ==
    \/ \E t \in Tools, b \in Bodies, o \in ApiOutcomes :
          PostToolConfig(Maintainer, t, b, o)
    \/ \E o \in ApiOutcomes : set_tool_config_delete(Maintainer, o)
    \/ \E o \in ApiOutcomes : set_tool_config_create(Maintainer, o)
    \/ \E t \in Tools, o \in ApiOutcomes : GetToolConfig(Maintainer, t, o)

SpecValidate == InitStorage /\ [][NextValidate]_vars

(***************************************************************************)
(* Snapshot specification: the config of a tool is set and set again while *)
(* a deployment of the tool is created, deployed, cancelled and listed.    *)
(***************************************************************************)
FirstReq == 1
SnapTool == "t1"

NextSnapshot ==
    \/ _check_active_deployments_limit(FirstReq, SnapTool)
    \/ get_tool_config(FirstReq)
    \/ create_tool_deployment(FirstReq)
    \/ Engine(FirstReq)
    \/ \E d \in DOMAIN stored : cancel_tool_deployment(SnapTool, d)
    \/ cancel_write
    \/ list_tool_deployments(SnapTool)
    \/ \E cfg \in Payloads :
          update_tool_config(Maintainer, SnapTool, cfg, "served")
    \/ set_tool_config_delete(Maintainer, "served")
    \/ set_tool_config_create(Maintainer, "served")

SpecSnapshot == InitStorage /\ [][NextSnapshot]_vars

(***************************************************************************)
(* Properties of the engine and of the cancel handler.                     *)
(***************************************************************************)
\* a step of the engine task of deployment r
EngineStep(r) ==
    <<pc[r], deployment[r], eng[r]>>' # <<pc[r], deployment[r], eng[r]>>

\* the step with which the engine task of deployment r returns
EngineFinishes(r) == pc[r] # "done" /\ pc'[r] = "done"

\* the engine task of deployment r upserts a job
JobUpsert(r) == jobCalls'[r] # jobCalls[r]

\* C1: once the stored status of a deployment is terminal, no step of its
\* engine task changes the stored status to a different value
C1_EngineKeepsTerminalStatus ==
    [][\A r \in DOMAIN stored :
          (EngineStep(r) /\ stored[r].status \in Terminal)
              => stored'[r].status = stored[r].status]_vars

C3_CancelOnlyFromPendingOrRunning ==
    [][/\ (nCancels' # nCancels) =>
            LET t == cancel'.tool
                d == cancel'.target
            IN  /\ ~Found(stored', t, d) =>
                      cancel'.resp = 404 /\ cancel'.pc = "idle"
                /\ (/\ Found(stored', t, d)
                    /\ stored'[d].status \notin {"pending", "running"}) =>
                      /\ cancel'.resp = 409
                      /\ cancel'.pc = "idle"
                      /\ \/ stored'[d] = stored[d]
                         \/ /\ stored'[d].status = "timed_out"
                            /\ stored[d].status
                                  \in {"pending", "running", "cancelling"}
                /\ (/\ Found(stored', t, d)
                    /\ stored'[d].status \in {"pending", "running"}) =>
                      /\ cancel'.resp = 0
                      /\ cancel'.pc = "write"
                      /\ cancel'.copy = stored'[d]
       /\ (cancel.pc = "write" /\ cancel'.pc = "idle") =>
            /\ cancel'.resp = 200
            /\ stored'[cancel.target].status = "cancelling"
       /\ \A d \in DOMAIN stored' :
            (/\ stored'[d].status = "cancelling"
             /\ d \in DOMAIN stored => stored[d].status # "cancelling") =>
                /\ cancel.pc = "write"
                /\ cancel.target = d
                /\ cancel.copy.status \in {"pending", "running"}]_vars

\* the handler has refused, with 409, to cancel a deployment that exists
C3_Witness ==
    /\ cancel.resp = 409
    /\ Found(stored, cancel.tool, cancel.target)
    /\ stored[cancel.target].status \in {"failed", "successful", "timed_out"}

\* the handler has accepted a cancel request and stored cancelling
C3_WitnessAccepted ==
    /\ cancel.resp = 200
    /\ stored[cancel.target].status = "cancelling"

\* C4: when the stored status became cancelling while the engine was in the
\* build poll loop, the engine upserts no job and the deployment ends with
\* status cancelled
C4_CancelDuringPollEndsCancelled ==
    \A d \in DOMAIN stored :
        (/\ cancel.resp = 200
         /\ cancel.target = d
         /\ cancel.engine_at = "poll") =>
            /\ jobCalls[d] = <<>>
            /\ pc[d] = "done" => stored[d].status = "cancelled"

\* C5: the engine upserts a job only when no build of the deployment is
\* failed, pending or running; and when a build ended failed the deployment
\* ends failed, with that build stored as failed and no job upserted
C5_JobsOnlyAfterBuildsSucceeded ==
    [][\A r \in Reqs :
          /\ JobUpsert(r) =>
                \A c \in DOMAIN deployment[r].builds :
                    deployment[r].builds[c].build_status
                        \notin {"failed", "pending", "running"}
          /\ (/\ EngineFinishes(r)
              /\ \E c \in DOMAIN deployment'[r].builds :
                    deployment'[r].builds[c].build_status = "failed") =>
                /\ stored'[r].status = "failed"
                /\ jobCalls'[r] = <<>>
                /\ \A c \in DOMAIN deployment'[r].builds :
                      deployment'[r].builds[c].build_status = "failed" =>
                          stored'[r].builds[c].build_status = "failed"]_vars

\* an engine task has finished after a polled build ended failed
C5_Witness ==
    /\ pc[1] = "done"
    /\ stored[1].status = "failed"
    /\ jobCalls[1] = <<>>
    /\ \E c \in DOMAIN stored[1].builds :
          stored[1].builds[c] = DeploymentBuildInfo("build-id", "failed")

\* the components whose build has not finished
Unfinished(cfg, builds) ==
    SelectNames(NameSeq(cfg),
                {c \in DOMAIN builds :
                    builds[c].build_status
                        \in {"pending", "running", "unknown"}})

\* C6: an engine task in the build poll loop always leaves it and finishes;
\* it is in the loop only while less than build_timeout_seconds have elapsed
\* since the loop started; and when it leaves the loop on the timeout the
\* deployment ends failed, the message names exactly the components whose
\* builds had not finished, and no job is upserted
C6_PollLoopTerminates ==
    /\ \A r \in Reqs : (pc[r] = "poll") ~> (pc[r] = "done")
    /\ [][\A r \in Reqs :
             /\ pc'[r] = "poll" =>
                   now' - eng'[r].start_time < build_timeout_seconds
             /\ (/\ EngineFinishes(r)
                 /\ eng[r].error.error
                       = "Some builds took too long to finish") =>
                   /\ stored'[r].status = "failed"
                   /\ stored'[r].long_status.names
                         = Unfinished(eng[r].tool_config, stored'[r].builds)
                   /\ stored'[r].long_status.names # <<>>
                   /\ jobCalls'[r] = <<>>]_vars

\* an engine task has finished after its poll loop timed out
C6_Witness ==
    /\ pc[1] = "done"
    /\ stored[1].long_status.error = "Some builds took too long to finish"
    /\ now >= build_timeout_seconds

ActiveCount(st, tool) ==
    Cardinality({d \in DOMAIN st :
                    st[d].tool = tool
                    /\ (st[d].status = "pending" \/ st[d].status = "running")})

\* C8: a create request is answered 409 exactly when, as its admission check
\* lists them, the tool has at least max_active_deployments deployments
\* stored as pending or running; a rejected request stores nothing; and no
\* other step of any handler answers 409 for the limit
C8_RejectedIffActiveLimitReached ==
    [][\A r \in Reqs :
          /\ (req[r].pc = "none" /\ req'[r].pc # "none") =>
                /\ req'[r].resp = 409
                      <=> ActiveCount(stored', req'[r].tool)
                              >= max_active_deployments
                /\ req'[r].resp = 409 =>
                      /\ req'[r].pc = "answered"
                      /\ DOMAIN stored' = DOMAIN stored
                /\ req'[r].resp # 409 => req'[r].pc = "checked"
          /\ (req[r].pc # "none" /\ req[r].resp # 409) =>
                req'[r].resp # 409]_vars

\* a create request has been rejected for the limit
C8_Witness ==
    \E r \in Reqs :
        /\ req[r].resp = 409
        /\ ActiveCount(stored, req[r].tool) >= max_active_deployments

\* a create request has passed the admission check while a deployment of
\* the tool was being cancelled
C8_WitnessCancellingNotCounted ==
    \E r \in Reqs :
        /\ req[r].pc = "checked"
        /\ \E d \in DOMAIN stored :
              stored[d].tool = req[r].tool /\ stored[d].status = "cancelling"

\* C9: for every tool, in every reachable state, at most
\* max_active_deployments of its stored deployments are pending or running
C9_ActiveDeploymentsWithinLimit ==
    \A t \in Tools : ActiveCount(stored, t) <= max_active_deployments

\* C10: a create request without the header is admitted exactly when its
\* token parameter is the string of the token stored for the tool and that
\* token's creation_date plus token_lifetime is not in the past; otherwise
\* it is answered 401
C10_TokenAdmittedIffStoredAndFresh ==
    [][(nAuths' # nAuths /\ ~auth'.header) =>
          LET t == auth'.tool
          IN  /\ auth'.resp \in {200, 401}
              /\ auth'.resp = 200 <=>
                    /\ tokens[t] # NoToken
                    /\ auth'.token = <<tokens[t].token>>
                    /\ tokens[t].creation_date + token_lifetime >= now]_vars

\* a request without the header has been admitted with the tool's token
C10_Witness ==
    /\ auth.resp = 200
    /\ ~auth.header
    /\ auth.token = <<tokens[auth.tool].token>>

\* a request carrying the tool's stored token has been refused because the
\* token had expired
C10_WitnessExpired ==
    /\ auth.resp = 401
    /\ ~auth.header
    /\ tokens[auth.tool] # NoToken
    /\ auth.token = <<tokens[auth.tool].token>>
    /\ tokens[auth.tool].creation_date + token_lifetime < now

\* a client's handler for the operation takes its first step
TokenCheckStep(c, op) ==
    /\ tok[c].pc = "idle"
    /\ tok'[c] # tok[c]
    /\ tok'[c].op = op

\* a client's handler for the operation stores and returns its new token
TokenWriteStep(c, op) ==
    /\ tok[c].pc = "new_token"
    /\ tok[c].op = op
    /\ tok'[c].pc = "idle"

\* the tokens that authenticate a request for the tool
Admitted(tool) ==
    {k \in 1..MaxTokens : TokenOrAuth(tool, FALSE, TokenStr(k)) = 200}

\* C11: a tool has at most one deploy token at any time; a create that
\* finds a token answers 409 and leaves the stored token unchanged; a
\* create that finds none stores a token, answers with it, and a read that
\* follows returns that same token
C11_CreateTokenConflictOrStored ==
    /\ [](\A t \in Tools : Cardinality(Admitted(t)) <= 1)
    /\ [][\A c \in Clients : \A t \in Tools :
            /\ (TokenCheckStep(c, "create") /\ tok'[c].tool = t) =>
                   /\ tokens' = tokens
                   /\ IF tokens[t] # NoToken
                      THEN tok'[c].pc = "idle" /\ tok'[c].resp = 409
                      ELSE tok'[c].pc = "new_token"
            /\ (TokenWriteStep(c, "create") /\ tok[c].tool = t) =>
                   /\ tok'[c].resp = 200
                   /\ tok'[c].token # NoToken
                   /\ tokens'[t] = tok'[c].token
                   /\ \A u \in Tools \ {t} : tokens'[u] = tokens[u]
            /\ (TokenCheckStep(c, "get") /\ tok'[c].tool = t) =>
                   /\ tokens' = tokens
                   /\ IF tokens[t] = NoToken
                      THEN tok'[c].resp = 404
                      ELSE tok'[c].resp = 200 /\ tok'[c].token = tokens[t]]_vars

\* one client's create stored a token, the other client's create for the
\* same tool was answered 409, and the first token is still the stored one
C11_Witness ==
    \E c, e \in Clients :
        /\ tok[c].op = "create" /\ tok[c].resp = 200
        /\ tok[e].op = "create" /\ tok[e].resp = 409
        /\ tok[e].tool = tok[c].tool
        /\ tokens[tok[c].tool] = tok[c].token

\* C12: a refresh that finds a token replaces it with a different one: the
\* answer is the new stored token, which a read returns, and the previous
\* token no longer authenticates a deployment create; a refresh that finds
\* no token answers 404 and creates none
C12_RefreshReplacesToken ==
    [][\A c \in Clients : \A t \in Tools : \A k \in 0..MaxTokens :
          /\ (TokenCheckStep(c, "update") /\ tok'[c].tool = t) =>
                 /\ tokens' = tokens
                 /\ nTokens' = nTokens
                 /\ IF tokens[t] = NoToken
                    THEN tok'[c].pc = "idle" /\ tok'[c].resp = 404
                    ELSE tok'[c].pc = "new_token"
          /\ ( /\ TokenWriteStep(c, "update")
               /\ tok[c].tool = t
               /\ tokens[t].token = k ) =>
                 /\ tok'[c].resp = 200
                 /\ tok'[c].token = tokens'[t]
                 /\ tokens'[t] # NoToken
                 /\ tokens'[t].token # k
                 /\ TokenOrAuth(t, FALSE, TokenStr(k))' = 401]_vars

\* a refresh has replaced an earlier token of the tool and its answer is
\* the stored token
C12_Witness ==
    \E c \in Clients :
        /\ tok[c].op = "update" /\ tok[c].resp = 200
        /\ tokens[tok[c].tool] = tok[c].token
        /\ tok[c].token.token > 1

\* a refresh of a tool without a token has been answered 404
C12_WitnessNotFound ==
    \E c \in Clients :
        /\ tok[c].op = "update" /\ tok[c].resp = 404
        /\ tokens[tok[c].tool] = NoToken

\* the deployment is one an operation on the tool must time out
Overdue(d, tool) ==
    /\ stored[d].tool = tool
    /\ stored[d].status \in {"pending", "running", "cancelling"}
    /\ stored[d].creation_time + deployment_timeout < now

\* the step did to the deployment what one sweep for the tool does
SweptOnce(d, tool) ==
    /\ d \in DOMAIN stored'
    /\ IF Overdue(d, tool)
       THEN /\ stored'[d].status = "timed_out"
            /\ stored'[d].long_status # NoLS
            /\ [stored'[d] EXCEPT !.status = stored[d].status,
                                  !.long_status = stored[d].long_status]
                   = stored[d]
       ELSE stored'[d] = stored[d]

\* C13: every storage operation on a tool's deployments (create, update,
\* get, delete, list) has, on the deployments it is not itself writing or
\* removing, the effect of one timeout sweep of that tool: exactly the
\* tool's pending, running and cancelling deployments created more than
\* deployment_timeout ago become timed_out; finished deployments, younger
\* ones and those of other tools are left as they are
C13_EveryOperationSweepsOnce ==
    [][\A t \in Tools :
          /\ (ListDeployments(t) \/ \E d \in TwoIds : GetDeployment(t, d)) =>
                 /\ DOMAIN stored' = DOMAIN stored
                 /\ \A x \in DOMAIN stored : SweptOnce(x, t)
          /\ \A d \in TwoIds :
                 /\ CreateDeployment(t, d) =>
                        \A x \in DOMAIN stored \ {d} : SweptOnce(x, t)
                 /\ (\E status \in WrittenStates :
                         UpdateDeployment(t, d, status)) =>
                        \A x \in DOMAIN stored \ {d} : SweptOnce(x, t)
                 /\ DeleteDeployment(t, d) =>
                        /\ \A x \in DOMAIN stored \ {d} : SweptOnce(x, t)
                        /\ Found(stored, t, d) => d \notin DOMAIN stored'
                        /\ ~Found(stored, t, d) /\ d \in DOMAIN stored =>
                               stored'[d] = stored[d]]_vars

\* the status the deployment has once the operation's sweep has run
SweptStatus(d, tool) ==
    IF Overdue(d, tool) THEN "timed_out" ELSE stored[d].status

\* C14: a successful create leaves the tool with at most
\* max_deployments_retained deployments unless all that remain are active;
\* what it removes are deployments of that tool that are not pending,
\* running or cancelling, no more of them than the excess, and none newer
\* than a finished deployment it keeps
C14_RetentionRemovesOldestTerminal ==
    [][\A t \in Tools : \A d \in Ids :
          (CreateDeployment(t, d) /\ sto'.result = "ok") =>
              LET removed == DOMAIN stored \ DOMAIN stored'
                  kept == OfTool(stored', t)
              IN  /\ d \in kept
                  /\ removed \subseteq OfTool(stored, t)
                  /\ \A x \in removed : SweptStatus(x, t) \in Terminal
                  /\ \/ Cardinality(kept) <= max_deployments_retained
                     \/ \A x \in kept : stored'[x].status \notin Terminal
                  /\ removed # {} =>
                         Cardinality(kept) >= max_deployments_retained
                  /\ \A x \in removed : \A y \in kept :
                         stored'[y].status \in Terminal =>
                            stored[x].creation_time <= stored'[y].creation_time
             ]_vars

\* C15: with either backend, creating a deployment whose deploy_id the tool
\* already has fails and leaves the stored deployment as it was
C15_CreateFailsWhenIdExists ==
    [][\A t \in Tools : \A d \in Ids :
          ( /\ CreateDeployment(t, d) \/ MockCreateDeployment(t, d)
            /\ Found(stored, t, d) ) =>
              /\ sto'.result \in {"StorageError", "NotFoundInStorage"}
              /\ stored' = stored]_vars

\* the client's config handler answers in this step
ConfAnswers(c, op) ==
    /\ conf[c].pc \in {"idle", "set_delete", "set_create", "delete"}
    /\ conf'[c] # conf[c]
    /\ conf'[c].pc = "idle"
    /\ conf'[c].op = op

Setting(c, t) ==
    /\ conf[c].pc \in {"set_delete", "set_create"}
    /\ conf[c].tool = t

\* C18: SetToolConfig overwrites atomically: a GetToolConfig that the API
\* serves while another client's set of an existing config is under way
\* answers a config and never 404, and a set whose Kubernetes calls are all
\* served while another client sets the same tool answers 200
C18_SetOverwritesAtomically ==
    [][\A c \in Clients, g \in Clients, t \in Tools :
          (g # c /\ Setting(c, t)) =>
              /\ GetToolConfig(g, t, "served") =>
                    (conf'[g].resp = 200 /\ conf'[g].data \in Payloads)
              /\ (/\ Setting(g, t)
                  /\ \/ set_tool_config_delete(g, "served")
                     \/ set_tool_config_create(g, "served")) =>
                    (conf'[g].resp \in {0, 200})]_vars

\* handlers whose except clauses single out NotFoundInStorage
NotFoundHandlers ==
    {"get_tool_config", "get_tool_deployment", "cancel_tool_deployment",
     "list_tool_deployments", "delete_tool_deployment", "get_deploy_token",
     "delete_deploy_token"}
\* handlers with one except clause, for every Exception
CatchAllHandlers ==
    {"update_tool_config", "delete_tool_config", "create_tool_deployment"}
\* the handler a config request is served by
HandlerOf(op) ==
    CASE op = "get" -> "get_tool_config"
      [] op = "update" -> "update_tool_config"
      [] op = "delete" -> "delete_tool_config"

\* the client's config request failed on an exception
Failed(c) == conf[c].pc = "idle" /\ conf[c].error # "none"

Offending(body) ==
    {body[i].reuse_from : i \in {k \in 1..Len(body) :
        /\ ~body[k].repository
        /\ \/ body[k].reuse_from \notin NamesOf(body)
           \/ \E j \in 1..Len(body) :
                 CompName(j) = body[k].reuse_from /\ ~body[j].repository}}

\* C20: a posted ToolConfig is accepted only if every reuse_from names a
\* component of the same config whose build is a SourceBuildInfo; otherwise
\* the answer is 422, the error names the offending components and only
\* them, and the stored config is unchanged
C20_ReuseFromValidated ==
    [][\A c \in Clients, t \in Tools, b \in Bodies :
          ((\E o \in ApiOutcomes : PostToolConfig(c, t, b, o))
             /\ Offending(b) # {}) =>
                /\ conf'[c].resp = 422
                /\ conf'[c].names = Offending(b)
                /\ tool_config' = tool_config]_vars

\* the create handler persists the request's deployment in this step
Created(r) == r \notin DOMAIN stored /\ r \in DOMAIN stored'

ReusedBuild(x) ==
    [build_id |-> NO_BUILD_NEEDED, build_status |-> "skipped",
     build_long_status |-> LS("Component re-uses build from", "", <<x>>)]

\* C21: for a component whose build is a reference to component X the build
\* start pass records the build as skipped with id no-build-needed and long
\* status "Component re-uses build from X", and the run phase upserts the job
\* of the component with the image of X.
C21_ReferenceReusesBuild ==
    [][\A r \in Reqs : \A i \in 1..Len(eng[r].tool_config) :
          LET component == eng[r].tool_config[i]
              c == CompName(i)
              x == component.build.reuse_from
          IN  UnsupportedBuild(component) =>
                 /\ (_start_builds(r) =>
                        deployment'[r].builds[c] = ReusedBuild(x))
                 /\ ((run_continuous_jobs(r) /\ eng[r].idx = i) =>
                        jobCalls'[r] =
                            Append(jobCalls[r], JobCall("upsert", c, x)))]_vars

\* the component whose build decides whether the job of component i is
\* replaced: the component a reference names, else the component itself
Referent(cfg, i) ==
    IF IsSourceBuild(cfg[i].build) THEN CompName(i)
    ELSE cfg[i].build.reuse_from

\* the calls of the jobs API a step of deployment r adds
NewJobCalls(r) ==
    SubSeq(jobCalls'[r], Len(jobCalls[r]) + 1, Len(jobCalls'[r]))

\* C22: in the run phase the job of a supported component is deleted before
\* it is upserted exactly when the build of its referent component ended
\* successful in this deployment (the deployments here do not set force_run);
\* when that build was skipped as reused there is no delete, and the delete
\* of a component comes right before its own upsert.
C22_DeleteBeforeUpsertIffRerun ==
    [][\A r \in Reqs :
          (run_continuous_jobs(r) /\ jobCalls'[r] # jobCalls[r]) =>
              LET cfg == eng[r].tool_config
                  c == CompName(eng[r].idx)
                  referent == Referent(cfg, eng[r].idx)
                  needs_rerun ==
                      deployment[r].builds[referent].build_status =
                          "successful"
                  new == NewJobCalls(r)
              IN  /\ new[Len(new)].call = "upsert"
                  /\ new[Len(new)].name = c
                  /\ IF needs_rerun
                     THEN /\ Len(new) = 2
                          /\ new[1].call = "delete"
                          /\ new[1].name = c
                     ELSE Len(new) = 1]_vars

(***************************************************************************)
(* The final step of the engine.                                           *)
(***************************************************************************)
\* no stored deployment is successful while one of its runs is pending
SuccessfulOnlyWhenRunsSettled ==
    \A d \in DOMAIN stored :
        stored[d].status = "successful" =>
            \A c \in DOMAIN stored[d].runs :
                stored[d].runs[c].run_status # "pending"

\* C27: the engine persists status successful only in its final step: no
\* stored deployment has status successful while the run of one of its
\* components is still pending, and a deployment stored as successful is
\* never stored as failed afterwards.
C27_SuccessfulOnlyInFinalStep ==
    /\ []SuccessfulOnlyWhenRunsSettled
    /\ [][\A d \in DOMAIN stored :
              stored[d].status = "successful" =>
                  stored'[d].status # "failed"]_vars

(***************************************************************************)
(* The build start pass.                                                   *)
(***************************************************************************)
\* the components whose entry says that their build failed to start
FailedToStart(cfg, builds) ==
    SelectNames(NameSeq(cfg),
                {c \in DOMAIN builds : builds[c] = StartedBuild("raise")})

\* C30: a build that fails to start does not stop the build start pass: the
\* pass goes on to the next component with nothing persisted, the whole
\* builds map (failed entries included) is persisted once after the pass, a
\* pass with a failed start goes to the failure wrapper without polling or
\* running anything, and the deployment is stored failed naming every
\* component whose build failed to start.
C30_StartFailureDoesNotStopPass ==
    [][\A r \in Reqs :
          LET cfg == eng[r].tool_config
          IN  /\ (_start_build(r) =>
                     /\ pc'[r] = "start_builds"
                     /\ eng'[r].idx = eng[r].idx + 1
                     /\ stored' = stored)
              /\ (_start_builds(r) =>
                     /\ DOMAIN stored'[r].builds = NamesOf(cfg)
                     /\ \A c \in SourceBuilt(cfg) :
                            stored'[r].builds[c] \in
                                {StartedBuild(o) : o \in StartBuildOutcomes}
                     /\ (FailedToStart(cfg, stored'[r].builds) # <<>> =>
                            /\ pc'[r] = "wrapper"
                            /\ eng'[r].error.tag = "BuildFailed"
                            /\ eng'[r].error.names =
                                   FailedToStart(cfg, stored'[r].builds)))
              /\ ((/\ set_deployment_as_failed_on_error(r)
                   /\ eng[r].error.error = "Some builds failed to start") =>
                     /\ pc'[r] = "done"
                     /\ jobCalls'[r] = <<>>
                     /\ stored'[r].status = "failed"
                     /\ stored'[r].builds = deployment[r].builds
                     /\ stored'[r].long_status.names =
                            FailedToStart(cfg, deployment[r].builds))]_vars

\* a deployment ended failed naming c1, whose build failed to start, after
\* the build of c2 had been started all the same
C30_Witness ==
    /\ pc[1] = "done"
    /\ stored[1].status = "failed"
    /\ DOMAIN stored[1].builds = {"c1", "c2"}
    /\ stored[1].builds["c1"] = StartedBuild("raise")
    /\ stored[1].builds["c2"] = StartedBuild("pending")
    /\ stored[1].long_status.names = <<"c1">>

(***************************************************************************)
(* The two storage backends.                                               *)
(***************************************************************************)
\* C26: the in-memory and the persistent backend implement the same
\* contract: from a state both have reached by the same operations, an
\* operation of the persistent backend returns what the same operation of
\* the in-memory backend returns and leaves the same deployments stored.
C26_BackendsAgree ==
    [][\A t \in Tools : \A d \in Ids :
          /\ (CreateDeployment(t, d) => MockCreateDeployment(t, d))
          /\ (GetDeployment(t, d) => MockGetDeployment(t, d))]_vars

(***************************************************************************)
(* The timeout sweep and the engine.                                       *)
(***************************************************************************)
\* the step marks deployment d timed_out
MarkedTimedOut(d) ==
    /\ d \in DOMAIN stored
    /\ stored[d].status # "timed_out"
    /\ stored'[d].status = "timed_out"

\* C29: the timeout sweep never rewrites a deployment whose engine task is
\* still executing: whenever a deployment is marked timed_out its engine has
\* finished or was never started.
C29_SweepNeverRacesEngine ==
    [][\A r \in Reqs : MarkedTimedOut(r) => pc[r] \in {"none", "done"}]_vars

(***************************************************************************)
(* Exceptions of the engine.                                               *)
(***************************************************************************)
\* no engine task has left do_deploy with an exception
NothingPropagated == \A r \in Reqs : pc[r] # "HTTPException"

\* C28: do_deploy never propagates an exception to its caller: once an
\* exception has been raised (BuildFailed, RunFailed, a runtime error or a
\* failed storage write) the task ends with the deployment stored with
\* status failed and a long_status starting with "Got exception".
C28_DoDeployNeverPropagates ==
    /\ []NothingPropagated
    /\ [][\A r \in Reqs :
              (pc[r] = "wrapper" /\ pc'[r] # "wrapper") =>
                  /\ pc'[r] = "done"
                  /\ stored'[r].status = "failed"
                  /\ stored'[r].long_status.tag = "Got exception"]_vars

(***************************************************************************)
(* Retries of the job calls.                                               *)
(***************************************************************************)
\* the attempts the retry policy allows
MaxAttempts == 5

\* the upserts made so far for the job of component c
Attempts(calls, c) ==
    Cardinality({n \in 1..Len(calls) :
                    calls[n].call = "upsert" /\ calls[n].name = c})

\* C24: a job-mutating call is made at most 5 times: a call that succeeds or
\* raises anything but a read timeout is made once and not repeated, and a
\* read timeout is raised, and the run recorded failed, only once the fifth
\* attempt has timed out.
C24_ReadTimeoutRetried ==
    [][\A r \in Reqs :
          run_continuous_jobs(r) =>
              LET c == CompName(eng[r].idx)
                  run == deployment'[r].runs[c]
                  attempts == Attempts(jobCalls'[r], c)
              IN  /\ attempts <= MaxAttempts
                  /\ (run.run_long_status \in {"HTTPError", "Exception"} =>
                         attempts = 1)
                  /\ (run.run_long_status = "ReadTimeout" =>
                         attempts = MaxAttempts)]_vars

(***************************************************************************)
(* Rejected create requests.                                               *)
(***************************************************************************)
\* the answers that reject a create request
Rejections == {400, 401, 404, 409, 500}

\* the create request r is answered in this step, and rejected
Rejected(r) ==
    /\ req[r].pc # "answered"
    /\ req'[r].pc = "answered"
    /\ req'[r].resp \in Rejections

Reusable(build) ==
    build.status \in {"BUILD_SUCCESS", "BUILD_PENDING", "BUILD_RUNNING"}

\* the status start_build returns for a re-used build
ReusedStatus(build) ==
    IF build.status = "BUILD_SUCCESS" THEN "skipped" ELSE "pending"

\* the most recent listed build for component c1, and the most recent one
\* for c1 that was also built with the requested use_latest_versions
LatestFor(call) ==
    LET sorted == SortedBuilds(call.builds)
    IN  FirstBuild(sorted,
            {k \in 1..Len(sorted) :
                /\ sorted[k].parameters # NoParameters
                /\ sorted[k].parameters.image_name = "c1"})
LatestLike(call) ==
    LET sorted == SortedBuilds(call.builds)
    IN  FirstBuild(sorted,
            {k \in 1..Len(sorted) :
                /\ sorted[k].parameters # NoParameters
                /\ sorted[k].parameters.image_name = "c1"
                /\ sorted[k].parameters.use_latest_versions =
                       call.use_latest_versions})

C23_WitnessReused ==
    /\ rt.pc = "returned"
    /\ rt.outcome.posted = 0
    /\ rt.outcome.raised = "none"
    /\ rt.outcome.result.build_status = "skipped"
    /\ rt.outcome.result.build_id = LatestFor(rt).build_id

(***************************************************************************)
(* The status of a build: ToolforgeRuntime.get_build_info                  *)
(* (components/runtime/toolforge.py) and _get_build_status                 *)
(* (components/deploy_task.py).                                            *)
(***************************************************************************)
\* every status of the builds API
AllBuildsBuildStatus ==
    BuildsBuildStatus \cup {"BUILD_CANCELLED", "BUILD_TIMEOUT", "BUILD_UNKNOWN"}

\* what the GET of the build gives: a response with a status, an empty
\* response, an HTTPError with status 404 or another one, another exception
BuildAnswers ==
    AllBuildsBuildStatus \cup {"empty", "HTTP_404", "HTTP_500", "Exception"}

\* the if/elif chain on the status of the response, the same in both
BuildStateOf(response_status) ==
    IF response_status = "BUILD_RUNNING" THEN "running"
    ELSE IF response_status = "BUILD_SUCCESS" THEN "successful"
    ELSE IF response_status \in
                {"BUILD_FAILURE", "BUILD_CANCELLED", "BUILD_TIMEOUT"}
         THEN "failed"
         ELSE "unknown"

\* _get_build_status of deploy_task.py: the DeploymentBuildState
get_build_status(answer) ==
    IF answer = "HTTP_404" THEN "failed"
    ELSE IF answer \in {"HTTP_500", "Exception", "empty"} THEN "unknown"
    ELSE BuildStateOf(answer)

\* ToolforgeRuntime.get_build_info: the DeploymentBuildInfo, or the
\* exception of reading DeploymentBuildInfo.NO_IMAGE_YET, an attribute the
\* model class does not have, for the default of the image of the response
get_build_info(build_id, answer) ==
    IF answer = "HTTP_404"
    THEN Returned(0, StartedBuildInfo(build_id, "failed", "not found"))
    ELSE IF answer \in {"HTTP_500", "Exception", "empty"}
         THEN Returned(0, StartedBuildInfo(build_id, "unknown", "error"))
         ELSE Raises(0, "AttributeError")

\* a call of get_build_info and of _get_build_status for a build
BuildInfoCall(tool, build_id, answer) ==
    [pc |-> "call", tool |-> tool, build_id |-> build_id, answer |-> answer,
     outcome |-> Raises(0, "none"), build_status |-> "none"]

get_build_info_call ==
    /\ rt.pc = "call"
    /\ rt' = [rt EXCEPT
           !.pc = "returned",
           !.outcome = get_build_info(rt.build_id, rt.answer),
           !.build_status = get_build_status(rt.answer)]
    /\ UNCHANGED <<now, stored, tool_config, engineVars, cancel, nCancels,
                   req, tokenVars, sto, conf>>

\* the status of every build is asked for once, under every answer
InitBuildInfo ==
    /\ InitIdle
    /\ \E t \in Tools, id \in 1..NewBuildId, answer \in BuildAnswers :
          rt = BuildInfoCall(t, id, answer)

NextBuildInfo == get_build_info_call

SpecBuildInfo == InitBuildInfo /\ [][NextBuildInfo]_vars

\* the build state the specification gives for an answer of the builds API
SpecifiedBuildState(answer) ==
    IF answer \in {"BUILD_PENDING", "BUILD_RUNNING"} THEN "running"
    ELSE IF answer = "BUILD_SUCCESS" THEN "successful"
    ELSE IF answer \in {"BUILD_FAILURE", "BUILD_CANCELLED", "BUILD_TIMEOUT",
                        "HTTP_404"}
         THEN "failed"
    ELSE IF answer \in {"HTTP_500", "Exception"} THEN "unknown"
    ELSE "any"

\* C31: the status of a build is running for BUILD_PENDING and
\* BUILD_RUNNING, successful for BUILD_SUCCESS, failed for BUILD_FAILURE,
\* BUILD_CANCELLED, BUILD_TIMEOUT and for a 404, unknown for any other
\* error, and the DeploymentBuildInfo returned has the build id asked for
C31_BuildStatusMapped ==
    [][get_build_info_call =>
          LET specified == SpecifiedBuildState(rt.answer)
              out == rt'.outcome
          IN  specified # "any" =>
                  /\ rt'.build_status = specified
                  /\ out.raised = "none"
                  /\ out.result.build_status = specified
                  /\ out.result.build_id = rt.build_id]_vars

\* C32: with the clock moved by the sleep of the poll loop only, a build is
\* polled only while less than build_timeout_seconds have elapsed since the
\* loop started, and the sleep after which that time has elapsed ends the
\* loop, less than one sleep after the timeout
C32_NoSweepAfterTimeout ==
    [][\A r \in Reqs :
          /\ _get_build_status(r) =>
                now - eng[r].start_time < build_timeout_seconds
          /\ _sleep(r) =>
                LET elapsed == now' - eng[r].start_time
                IN  /\ pc'[r] = "poll" => elapsed < build_timeout_seconds
                    /\ elapsed >= build_timeout_seconds =>
                          /\ pc'[r] # "poll"
                          /\ elapsed
                                < build_timeout_seconds + PollSleepSeconds]_vars

\* the poll loop has just ended on the timeout, after its last sleep
C32_Witness ==
    /\ pc[1] = "wrapper"
    /\ eng[1].error.error = "Some builds took too long to finish"
    /\ now >= build_timeout_seconds
    /\ now < build_timeout_seconds + PollSleepSeconds

(***************************************************************************)
(* The deploy token in the persistent backend                              *)
(* (components/storage/kubernetes.py): the deploytokens object of the tool *)
(* and its TOOL_DEPLOY_TOKEN envvar.                                       *)
(***************************************************************************)
\* how a call of the kubernetes API or of the envvars API ends: as the API
\* specifies, with a 404, or with another error
DownstreamOutcomes == {"ok", "404", "error"}

\* the calls set_deploy_token and delete_deploy_token make, in order
DownstreamCalls ==
    [get : DownstreamOutcomes, create : DownstreamOutcomes,
     delete : DownstreamOutcomes, recreate : DownstreamOutcomes,
     envvar : DownstreamOutcomes]

\* _set_deploy_token_crd, _delete_deploy_token_crd, get_deploy_token: the
\* exception for a failed call of the kubernetes API
CrdError(outcome) ==
    IF outcome = "404" THEN "NotFoundInStorage" ELSE "StorageError"

\* the token object, the envvar and the result a storage call leaves
Stored(tool, crd, envvar, op, result) ==
    /\ tokens' = [tokens EXCEPT ![tool] = crd]
    /\ envvars' = [envvars EXCEPT ![tool] = envvar]
    /\ sto' = Call(op, result)

\* KubernetesStorage.set_deploy_token with a new DeployToken
SetDeployToken(tool) ==
    /\ nTokens < MaxTokens
    /\ nTokens' = nTokens + 1
    /\ \E o \in DownstreamCalls :
          LET token == [token |-> nTokens + 1, creation_date |-> now]
              op == "set_deploy_token"
              _set_deploy_token_envvar ==
                  IF o.envvar = "ok"
                  THEN Stored(tool, token, TokenStr(token.token), op, "ok")
                  ELSE Stored(tool, token, envvars[tool], op, "StorageError")
          IN  IF o.create # "ok"
              THEN Stored(tool, tokens[tool], envvars[tool], op,
                          CrdError(o.create))
              ELSE IF tokens[tool] = NoToken
              THEN _set_deploy_token_envvar
              \* 409: the object exists, delete it and create it again
              ELSE IF o.delete # "ok"
              THEN Stored(tool, tokens[tool], envvars[tool], op,
                          CrdError(o.delete))
              ELSE IF o.recreate # "ok"
              THEN Stored(tool, NoToken, envvars[tool], op,
                          CrdError(o.recreate))
              ELSE _set_deploy_token_envvar
    /\ UNCHANGED <<now, tool_config, stored, engineVars, cancel, nCancels,
                   req, auth, nAuths, tok, conf, rt>>

\* KubernetesStorage.delete_deploy_token
DeleteDeployToken(tool) ==
    /\ \E o \in DownstreamCalls :
          LET op == "delete_deploy_token"
          IN  IF o.get # "ok"
              THEN Stored(tool, tokens[tool], envvars[tool], op,
                          CrdError(o.get))
              ELSE IF tokens[tool] = NoToken
              THEN Stored(tool, tokens[tool], envvars[tool], op,
                          "NotFoundInStorage")
              ELSE IF o.delete # "ok"
              THEN Stored(tool, tokens[tool], envvars[tool], op,
                          CrdError(o.delete))
              ELSE IF o.envvar = "ok" /\ envvars[tool] # NoEnvvar
              THEN Stored(tool, NoToken, NoEnvvar, op, "ok")
              ELSE Stored(tool, NoToken, envvars[tool], op, "StorageError")
    /\ UNCHANGED <<now, tool_config, stored, engineVars, cancel, nCancels,
                   req, auth, nAuths, nTokens, tok, conf, rt>>

\* tokens set and deleted for the tools, the downstream calls failing or not
NextTokenStore ==
    \/ \E t \in Tools : SetDeployToken(t)
    \/ \E t \in Tools : DeleteDeployToken(t)

SpecTokenStore == InitStorage /\ [][NextTokenStore]_vars

\* C33: after every set_deploy_token and delete_deploy_token, returned or
\* raised, a tool has the TOOL_DEPLOY_TOKEN envvar exactly when it has a
\* token object, and the envvar is that token
C33_TokenAndEnvvarInStep ==
    \A t \in Tools :
        /\ envvars[t] # NoEnvvar <=> tokens[t] # NoToken
        /\ tokens[t] # NoToken => envvars[t] = TokenStr(tokens[t].token)

\* the cancel handler has stored cancelling for deployment d and answered 200
CancelAccepted(d) ==
    /\ cancel.pc = "idle"
    /\ cancel.resp = 200
    /\ cancel.target = d

\* C34: once a cancel request for a deployment has been accepted, its stored
\* status never becomes running or successful, wherever the engine task was
\* when the request arrived
C34_AcceptedCancelWins ==
    [][\A d \in DOMAIN stored :
          CancelAccepted(d) /\ d \in DOMAIN stored' =>
              stored'[d].status \notin {"running", "successful"}]_vars

\* the cancel handler's write landed before the engine task of d had taken
\* its first step
CancelledWhilePending(d) ==
    /\ CancelAccepted(d)
    /\ cancel.engine_at = "start"

\* C35: when a cancel request is accepted before the engine task of a
\* deployment has taken its first step, the task calls start_build for no
\* component and upserts no job, and when it has finished the deployment is
\* stored as cancelled
C35_CancelBeforeStartDoesNothing ==
    [][\A r \in Reqs :
          CancelledWhilePending(r) =>
              /\ _start_build(r) =>
                    ~IsSourceBuild(eng[r].tool_config[eng[r].idx].build)
              /\ jobCalls'[r] = <<>>
              /\ pc'[r] = "done" /\ r \in DOMAIN stored' =>
                    stored'[r].status = "cancelled"]_vars

\* C36: the write of the cancel handler changes the status of the deployment
\* only: the builds and runs in storage, those the engine persisted since
\* the handler read the deployment included, are the same after the write
C36_CancelKeepsProgress ==
    [][cancel_write =>
          LET d == cancel.target
          IN  /\ d \in DOMAIN stored'
              /\ stored'[d].builds = stored[d].builds
              /\ stored'[d].runs = stored[d].runs]_vars

\* The engine with deployments being deleted under it.
NextDelete ==
    \/ \E r \in Reqs : Engine(r)
    \/ \E t \in Tools, d \in DOMAIN stored \cup {UnknownId} :
          DeleteDeployment(t, d)
    \/ \E t \in Tools : list_tool_deployments(t)

SpecDelete == InitEngine /\ [][NextDelete]_vars

\* the deployments that have an engine task and no record: no deployment is
\* created in SpecDelete, so their record has been deleted
Deleted == {d \in Reqs : pc[d] # "none"} \ DOMAIN stored

\* C37: a deployment that has been deleted stays deleted: no later step, a
\* write of its engine task included, puts a record with its deploy_id into
\* storage, so no later list of the tool's deployments has it
C37_DeletedStaysDeleted ==
    [][\A d \in Deleted : d \notin DOMAIN stored']_vars

NonTerminal(st, tool) ==
    {d \in DOMAIN st : st[d].tool = tool /\ st[d].status \notin Terminal}

\* the engine tasks of the tool that have been scheduled and have not
\* finished
EngineTasks(tool) ==
    {r \in Reqs : pc[r] \notin {"none", "done"} /\ deployment[r].tool = tool}

\* C39: for every tool, in every reachable state, at most
\* max_active_deployments of its stored deployments are pending, running or
\* cancelling, and at most that many of its engine tasks are unfinished
C39_NonTerminalWithinLimit ==
    \A t \in Tools :
        /\ Cardinality(NonTerminal(stored, t)) <= max_active_deployments
        /\ Cardinality(EngineTasks(t)) <= max_active_deployments

====
